---------------------------- MODULE Spec2Model ----------------------------
(***************************************************************************)
(* In-band secret distribution for MASP shielded outputs                   *)
(* (masp_primitives/src/note_encryption.rs, masp_primitives/src/sapling.rs)*)
(*                                                                         *)
(* Byte arrays are sequences of bytes (0..255).  The Jubjub group is the   *)
(* cyclic group of order Cofactor * SubgroupOrder written additively on    *)
(* 0 .. GroupOrder-1; its prime-order subgroup is the multiples of         *)
(* Cofactor.  BLAKE2b, the note commitment and ChaCha20-Poly1305 are       *)
(* symbolic: a hash is the record of its personalization and input, so     *)
(* two hashes are equal exactly when their inputs are.                     *)
(***************************************************************************)
EXTENDS Integers, Sequences, FiniteSets, TLC

VARIABLES
    params,     \* consensus parameters of the SaplingDomain: [canopy : Option(height)]
    height,     \* block height of the SaplingDomain
    pc,         \* "start" | "sent" | "called"
    ne,         \* the sender's NoteEncryption context, NoContext before encryption
    ivk,        \* the scanning wallet's incoming viewing key (a scalar)
    ovk,        \* the recovering wallet's outgoing viewing key (32 bytes)
    ock,        \* the outgoing cipher key handed to recovery
    output,     \* the OutputDescription on the wire
    tamper,     \* what was done to the output after encryption
    res,        \* results of the four decryption entry points
    call,       \* last call of a stand-alone function: its arguments and result
    noise       \* what ChaCha20 yields when a body is decrypted under another key

vars == <<params, height, pc, ne, ivk, ovk, ock, output, tamper, res, call, noise>>

---------------------------------------------------------------------------
(* Bounds of the model *)

MaxHeight == 5          \* heights 0 .. MaxHeight
MaxActivation == 3      \* Canopy activation heights 0 .. MaxActivation
MemoSize == 2           \* bytes of memo behind the compact note plaintext
MaxBatch == 3           \* longest batch handed to the batch functions
TestCanopyHeight == 2   \* activation height of Canopy on TEST_NETWORK
GracePeriod == 2        \* blocks of the ZIP 212 grace period

(* Program constants *)

Cofactor == 8
SubgroupOrder == 5
ZIP212_GRACE_PERIOD == GracePeriod
COMPACT_NOTE_SIZE == 84
OUT_PLAINTEXT_SIZE == 64
NOTE_PLAINTEXT_SIZE == COMPACT_NOTE_SIZE + MemoSize
GroupOrder == Cofactor * SubgroupOrder

KDF_SAPLING_PERSONALIZATION == "MASP__SaplingKDF"
PRF_OCK_PERSONALIZATION == "MASP__Derive_ock"

---------------------------------------------------------------------------
(* Option, and the outcome of a call that may panic *)

None == [tag |-> "None"]
Some(v) == [tag |-> "Some", val |-> v]
Panic == [tag |-> "Panic"]
IsSome(o) == o.tag = "Some"

(* Byte arrays *)

RECURSIVE Repeat(_, _)
Repeat(b, n) == IF n = 0 THEN <<>> ELSE <<b>> \o Repeat(b, n - 1)
Zeros(n) == Repeat(0, n)
LeadThenZeros(b, n) == <<b>> \o Zeros(n - 1)
Slice(b, from, to) == SubSeq(b, from + 1, to)   \* b[from..to] of the source
\* b with the bytes from offset `from` on replaced by new
Splice(b, from, new) ==
    SubSeq(b, 1, from) \o new \o SubSeq(b, from + Len(new) + 1, Len(b))
IsZeroFrom(b, k) == \A i \in k..Len(b) : b[i] = 0

---------------------------------------------------------------------------
(* jubjub: points, scalars and their 32-byte encodings *)

Identity == 0
InSubgroup(p) == p % Cofactor = 0
PointAdd(p, q) == (p + q) % GroupOrder
PointMul(p, s) == (p * s) % GroupOrder
clear_cofactor(p) == PointMul(p, Cofactor)
is_identity(p) == p = Identity

PointToBytes(p) == LeadThenZeros(p, 32)
ScalarToRepr(s) == LeadThenZeros(s, 32)

\* jubjub::AffinePoint::from_bytes: canonical encodings only
AffinePoint_from_bytes(b) ==
    IF b[1] < GroupOrder /\ IsZeroFrom(b, 2) THEN Some(b[1]) ELSE None

\* jubjub::ExtendedPoint::from_bytes: the affine point, in extended coordinates
ExtendedPoint_from_bytes(b) == AffinePoint_from_bytes(b)

\* jubjub::AffinePoint::batch_from_bytes: each item as from_bytes decodes it
AffinePoint_batch_from_bytes(items) ==
    [i \in 1..Len(items) |-> AffinePoint_from_bytes(items[i])]

\* group::Curve::batch_normalize(p, q): panics unless p and q are equally
\* long, else fills q with the affine forms of p
batch_normalize(p, q) == IF Len(p) # Len(q) THEN Panic ELSE Some(p)

\* jubjub::SubgroupPoint::from_bytes: a canonical encoding of a subgroup point
SubgroupPoint_from_bytes(b) ==
    LET p == ExtendedPoint_from_bytes(b)
    IN  IF IsSome(p) /\ InSubgroup(p.val) THEN p ELSE None

\* jubjub::Fr::from_repr: a canonical encoding of a scalar
Fr_from_repr(b) ==
    IF b[1] < SubgroupOrder /\ IsZeroFrom(b, 2) THEN Some(b[1]) ELSE None

---------------------------------------------------------------------------
(* consensus: the network-upgrade query *)

activation_height(p) == p.canopy

is_nu_active(p, h) == IsSome(p.canopy) /\ h >= p.canopy.val

TEST_NETWORK == [canopy |-> Some(TestCanopyHeight)]

---------------------------------------------------------------------------
(* Version gate *)

plaintext_version_is_valid_NoGrace(p, h, leadbyte) ==
    IF is_nu_active(p, h)
    THEN leadbyte = 2
    ELSE leadbyte = 1

plaintext_version_is_valid_GraceOnly(p, h, leadbyte) ==
    IF is_nu_active(p, h)
    THEN LET grace_period_end_height == activation_height(p).val + ZIP212_GRACE_PERIOD
         IN  IF h < grace_period_end_height
             THEN leadbyte = 1 \/ leadbyte = 2
             ELSE leadbyte = 1
    ELSE leadbyte = 1

plaintext_version_is_valid_AnyHeight(p, h, leadbyte) ==
    leadbyte = 1 \/ leadbyte = 2

plaintext_version_is_valid(p, h, leadbyte) ==
    IF is_nu_active(p, h)
    THEN LET grace_period_end_height == activation_height(p).val + ZIP212_GRACE_PERIOD
         IN  IF h < grace_period_end_height /\ leadbyte # 1 /\ leadbyte # 2
             THEN FALSE
             ELSE IF h >= grace_period_end_height /\ leadbyte # 2
             THEN FALSE
             ELSE TRUE
    ELSE leadbyte = 1

---------------------------------------------------------------------------
(* u64 amounts, kept as their eight base-256 digits, least significant first *)

U64(n) ==
    <<n % 256, (n \div 256) % 256, (n \div 65536) % 256, (n \div 16777216) % 256,
      0, 0, 0, 0>>

\* a <= b on u64 digits: compare from the most significant digit down
RECURSIVE U64LeqFrom(_, _, _)
U64LeqFrom(a, b, i) ==
    IF i = 0 THEN TRUE
    ELSE IF a[i] < b[i] THEN TRUE
    ELSE IF a[i] > b[i] THEN FALSE
    ELSE U64LeqFrom(a, b, i - 1)
U64Leq(a, b) == U64LeqFrom(a, b, 8)

\* the value as a scalar, jubjub::Fr::from(u64): the digits reduced mod the order
RECURSIVE U64ModFrom(_, _)
U64ModFrom(a, i) ==
    IF i = 0 THEN 0
    ELSE (a[i] + 256 * U64ModFrom(a, i - 1)) % SubgroupOrder
Fr_from_u64(a) == U64ModFrom([i \in 1..8 |-> a[9 - i]], 8)

\* transaction::components::amount::MAX_MONEY = 21_000_000 * 100_000_000
MAX_MONEY == <<0, 64, 7, 90, 240, 117, 7, 0>>

\* Amount::from_u64_le_bytes followed by u64::from(Amount)
Amount_from_u64_le_bytes(b) == IF U64Leq(b, MAX_MONEY) THEN Some(b) ELSE None

\* WriteBytesExt::write_u64::<LittleEndian>: the digits, least significant first
write_u64_le(v) == SubSeq(v, 1, 8)

---------------------------------------------------------------------------
(* Collaborators of the note: group hash, asset type, note commitment, esk *)

\* group_hash(d, KEY_DIVERSIFICATION_PERSONALIZATION): no point, or a
\* non-identity point of the prime-order subgroup
group_hash(d) ==
    IF d[1] % 2 = 1 THEN None
    ELSE Some(Cofactor * (((d[1] \div 2) % (SubgroupOrder - 1)) + 1))

\* Diversifier::g_d
g_d_AnyBytes(diversifier) == Some(2 * Cofactor)

g_d(diversifier) == group_hash(diversifier)

\* AssetType::from_identifier: the identifier must hash to a curve point
AssetType_from_identifier(b) ==
    IF b[1] % 2 = 0 THEN Some([identifier |-> b]) ELSE None

asset_generator(asset_type) == (asset_type.identifier[1] + 3) % GroupOrder

VALUE_COMMITMENT_RANDOMNESS_GENERATOR == Cofactor

\* ValueCommitment::commitment
ValueCommitment_commitment(vc) ==
    PointAdd(PointMul(clear_cofactor(vc.asset_generator), Fr_from_u64(vc.value)),
             PointMul(VALUE_COMMITMENT_RANDOMNESS_GENERATOR, vc.randomness))

BeforeZip212(rcm) == [tag |-> "BeforeZip212", rcm |-> rcm]
AfterZip212(rseed) == [tag |-> "AfterZip212", rseed |-> rseed]

\* Note::cmu: a collision-free commitment to every field of the note
Note_cmu(note) ==
    [cm_asset |-> note.asset_type.identifier, cm_value |-> note.value,
     cm_g_d |-> note.g_d, cm_pk_d |-> note.pk_d, cm_rseed |-> note.rseed]

\* Note::derive_esk: nothing before ZIP 212, a hash of rseed to a scalar after
Note_derive_esk(note) ==
    IF note.rseed.tag = "BeforeZip212" THEN None
    ELSE Some((note.rseed.rseed[1] + note.rseed.rseed[2]) % SubgroupOrder)

\* Note::generate_or_derive_esk_internal: rng is the scalar the RNG would give
generate_or_derive_esk_internal(note, rng) ==
    IF IsSome(Note_derive_esk(note)) THEN Note_derive_esk(note).val ELSE rng

---------------------------------------------------------------------------
(* Payment addresses (sapling.rs) *)

PaymentAddress_from_parts_AcceptsIdentity(diversifier, pk_d) ==
    Some([pk_d |-> pk_d, diversifier |-> diversifier])

PaymentAddress_from_parts(diversifier, pk_d) ==
    IF is_identity(pk_d) THEN None
    ELSE Some([pk_d |-> pk_d, diversifier |-> diversifier])

PaymentAddress_from_parts_unchecked(diversifier, pk_d) ==
    [pk_d |-> pk_d, diversifier |-> diversifier]

PaymentAddress_create_note_FixedGd(to, asset_type, value, rseed) ==
    IF IsSome(g_d(to.diversifier))
    THEN Some([asset_type |-> asset_type, value |-> value, rseed |-> rseed,
               g_d |-> 2 * Cofactor, pk_d |-> to.pk_d])
    ELSE None

PaymentAddress_create_note(to, asset_type, value, rseed) ==
    IF IsSome(g_d(to.diversifier))
    THEN Some([asset_type |-> asset_type, value |-> value, rseed |-> rseed,
               g_d |-> g_d(to.diversifier).val, pk_d |-> to.pk_d])
    ELSE None

\* PaymentAddress::from_bytes
PaymentAddress_from_bytes_AnyDiversifier(bytes) ==
    LET diversifier == Slice(bytes, 0, 11)
        pk_d == SubgroupPoint_from_bytes(Slice(bytes, 11, 43))
    IN  IF IsSome(pk_d) THEN PaymentAddress_from_parts(diversifier, pk_d.val)
        ELSE None

PaymentAddress_from_bytes(bytes) ==
    LET diversifier == Slice(bytes, 0, 11)
        pk_d == SubgroupPoint_from_bytes(Slice(bytes, 11, 43))
    IN  IF ~IsSome(g_d(diversifier)) THEN None
        ELSE IF IsSome(pk_d) THEN PaymentAddress_from_parts(diversifier, pk_d.val)
        ELSE None

\* PaymentAddress::to_bytes
PaymentAddress_to_bytes(a) == a.diversifier \o PointToBytes(a.pk_d)

---------------------------------------------------------------------------
(* Viewing keys (sapling.rs) *)

Ok(v) == [tag |-> "Ok", val |-> v]
Err(kind, msg) == [tag |-> "Err", kind |-> kind, msg |-> msg]

\* impl BorshDeserialize for PaymentAddress: the result and the buffer the
\* caller is left with
PaymentAddress_deserialize_AdvancesFirst(buf) ==
    IF Len(buf) < 43
    THEN [result |-> Err("UnexpectedEof", ""), buf |-> buf]
    ELSE LET data == SubSeq(buf, 1, 43)
             res_ == PaymentAddress_from_bytes(data)
             rest == SubSeq(buf, 44, Len(buf))
         IN  IF ~IsSome(res_)
             THEN [result |-> Err("InvalidData", ""), buf |-> rest]
             ELSE [result |-> Ok(res_.val), buf |-> rest]

PaymentAddress_deserialize(buf) ==
    IF Len(buf) < 43
    THEN [result |-> Err("UnexpectedEof", ""), buf |-> buf]
    ELSE LET data == SubSeq(buf, 1, 43)
             res_ == PaymentAddress_from_bytes(data)
         IN  IF ~IsSome(res_)
             THEN [result |-> Err("InvalidData", ""), buf |-> buf]
             ELSE [result |-> Ok(res_.val), buf |-> SubSeq(buf, 44, Len(buf))]

\* the checks ViewingKey::read makes, the one on nk as a parameter
ViewingKey_read_With(reader, nkNotIdentity) ==
    LET ak == SubgroupPoint_from_bytes(Slice(reader, 0, 32))
        nk == SubgroupPoint_from_bytes(Slice(reader, 32, 64))
    IN  IF Len(reader) < 64 THEN Err("UnexpectedEof", "failed to fill whole buffer")
        ELSE IF ~IsSome(ak) \/ is_identity(ak.val)
             THEN Err("InvalidInput", "ak not of prime order")
        ELSE IF ~IsSome(nk) \/ (nkNotIdentity /\ is_identity(nk.val))
             THEN Err("InvalidInput", "nk not in prime-order subgroup")
        ELSE Ok([ak |-> ak.val, nk |-> nk.val])

ViewingKey_read_NkNotIdentity(reader) == ViewingKey_read_With(reader, TRUE)

\* ViewingKey::read
ViewingKey_read(reader) == ViewingKey_read_With(reader, FALSE)

\* ViewingKey::to_bytes, by ViewingKey::write
ViewingKey_to_bytes(vk) == PointToBytes(vk.ak) \o PointToBytes(vk.nk)

---------------------------------------------------------------------------
(* Key agreement and key derivation *)

Blake2b(personal, input) == [personal |-> personal, input |-> input]

sapling_ka_agree_NoCofactor(esk, pk_d) == PointMul(pk_d, esk)

sapling_ka_agree(esk, pk_d) == clear_cofactor(PointMul(pk_d, esk))

kdf_sapling_IgnoresEpk(dhsecret, ephemeral_key) ==
    Blake2b(KDF_SAPLING_PERSONALIZATION, <<PointToBytes(dhsecret), Zeros(32)>>)

kdf_sapling(dhsecret, ephemeral_key) ==
    Blake2b(KDF_SAPLING_PERSONALIZATION, <<PointToBytes(dhsecret), ephemeral_key>>)

prf_ock_IgnoresCv(ovk_, cv, cmu_bytes, ephemeral_key) ==
    Blake2b(PRF_OCK_PERSONALIZATION, <<ovk_, Zeros(32), cmu_bytes, ephemeral_key>>)

prf_ock(ovk_, cv, cmu_bytes, ephemeral_key) ==
    Blake2b(PRF_OCK_PERSONALIZATION, <<ovk_, PointToBytes(cv), cmu_bytes, ephemeral_key>>)

epk_bytes(epk) == PointToBytes(epk)

---------------------------------------------------------------------------
(* ChaCha20-Poly1305 with the all-zero nonce.  A ciphertext is the body    *)
(* (the plaintext under the ChaCha20 keystream of key k) and the Poly1305  *)
(* tag over the body.  Decrypting a body under another key yields the      *)
(* bytes of noise, cut to the body's length.                               *)

Poly1305(key, k, pt) == [mac_key |-> key, mac_k |-> k, mac_pt |-> pt]

ChaCha20(key, k, pt) == IF key = k THEN pt ELSE SubSeq(noise, 1, Len(pt))

encrypt_in_place_detached(key, pt) ==
    [k |-> key, pt |-> pt, tag |-> Poly1305(key, key, pt)]

decrypt_in_place_detached(key, ct) ==
    IF ct.tag = Poly1305(key, ct.k, ct.pt)
    THEN Some(ChaCha20(key, ct.k, ct.pt))
    ELSE None

---------------------------------------------------------------------------
(* Plaintext codecs *)

\* SaplingDomain::note_plaintext_bytes, the leading byte as a parameter
note_plaintext_bytes_Lead(note, to, memo_, lead) ==
    <<lead>>
    \o to.diversifier
    \o write_u64_le(note.value)
    \o note.asset_type.identifier
    \o (IF note.rseed.tag = "BeforeZip212"
        THEN ScalarToRepr(note.rseed.rcm)
        ELSE note.rseed.rseed)
    \o memo_

\* the layout without the asset-type identifier
note_plaintext_bytes_NoAsset(note, to, memo_) ==
    <<IF note.rseed.tag = "BeforeZip212" THEN 1 ELSE 2>>
    \o to.diversifier
    \o write_u64_le(note.value)
    \o (IF note.rseed.tag = "BeforeZip212"
        THEN ScalarToRepr(note.rseed.rcm)
        ELSE note.rseed.rseed)
    \o memo_

note_plaintext_bytes_AlwaysV2(note, to, memo_) ==
    note_plaintext_bytes_Lead(note, to, memo_, 2)

note_plaintext_bytes(note, to, memo_) ==
    note_plaintext_bytes_Lead(note, to, memo_,
        IF note.rseed.tag = "BeforeZip212" THEN 1 ELSE 2)

outgoing_plaintext_bytes_EskFirst(note, esk) ==
    ScalarToRepr(esk) \o PointToBytes(note.pk_d)

outgoing_plaintext_bytes(note, esk) ==
    PointToBytes(note.pk_d) \o ScalarToRepr(esk)

\* the closures handed to sapling_parse_note_plaintext_without_memo
ByIvk(ivk_) == [by |-> "ivk", ivk |-> ivk_]
ByOvk(pk_d, esk, ephemeral_key) ==
    [by |-> "ovk", pk_d |-> pk_d, esk |-> esk, ephemeral_key |-> ephemeral_key]

get_validated_pk_d_IgnoresIvk(how, diversifier) ==
    IF ~IsSome(g_d(diversifier)) THEN None
    ELSE IF how.by = "ivk" THEN Some(g_d(diversifier).val)
    ELSE IF PointToBytes(PointMul(g_d(diversifier).val, how.esk)) = how.ephemeral_key
         THEN Some(how.pk_d)
         ELSE None

get_validated_pk_d(how, diversifier) ==
    IF ~IsSome(g_d(diversifier)) THEN None
    ELSE IF how.by = "ivk" THEN Some(PointMul(g_d(diversifier).val, how.ivk))
    ELSE IF PointToBytes(PointMul(g_d(diversifier).val, how.esk)) = how.ephemeral_key
         THEN Some(how.pk_d)
         ELSE None

\* sapling_parse_note_plaintext_without_memo, with the version check and the
\* least length it asserts as parameters
sapling_parse_With(p, h, plaintext, how, checkVersion, minLen) ==
    IF Len(plaintext) < minLen THEN Panic
    ELSE IF checkVersion /\ ~plaintext_version_is_valid(p, h, plaintext[1]) THEN None
    ELSE
    LET diversifier == Slice(plaintext, 1, 12)
        value == Amount_from_u64_le_bytes(Slice(plaintext, 12, 20))
        asset_type == AssetType_from_identifier(Slice(plaintext, 20, 52))
        r == Slice(plaintext, 52, COMPACT_NOTE_SIZE)
        rcm == Fr_from_repr(r)
        rseed == IF plaintext[1] = 1 THEN BeforeZip212(rcm.val) ELSE AfterZip212(r)
        pk_d == get_validated_pk_d(how, diversifier)
        to == PaymentAddress_from_parts(diversifier, pk_d.val)
        note == PaymentAddress_create_note(to.val, asset_type.val, value.val, rseed)
    IN  IF ~IsSome(value) THEN None
        ELSE IF ~IsSome(asset_type) THEN None
        ELSE IF plaintext[1] = 1 /\ ~IsSome(rcm) THEN None
        ELSE IF ~IsSome(pk_d) THEN None
        ELSE IF ~IsSome(to) THEN None
        ELSE IF ~IsSome(note) THEN None
        ELSE Some([note |-> note.val, to |-> to.val])

sapling_parse_NoVersionCheck(p, h, plaintext, how) ==
    sapling_parse_With(p, h, plaintext, how, FALSE, COMPACT_NOTE_SIZE)

sapling_parse_AssertsFullSize(p, h, plaintext, how) ==
    sapling_parse_With(p, h, plaintext, how, TRUE, NOTE_PLAINTEXT_SIZE)

sapling_parse_RseedAlwaysAfter(p, h, plaintext, how) ==
    LET parsed == sapling_parse_With(p, h, plaintext, how, TRUE, COMPACT_NOTE_SIZE)
    IN  IF IsSome(parsed)
        THEN Some([parsed.val EXCEPT !.note.rseed =
                       AfterZip212(Slice(plaintext, 52, COMPACT_NOTE_SIZE))])
        ELSE parsed

sapling_parse_UncheckedValue(p, h, plaintext, how) ==
    IF Len(plaintext) < COMPACT_NOTE_SIZE THEN Panic
    ELSE
    LET parsed == sapling_parse_With(p, h, Splice(plaintext, 12, Zeros(8)), how,
                      TRUE, COMPACT_NOTE_SIZE)
    IN  IF IsSome(parsed)
        THEN Some([parsed.val EXCEPT !.note.value = Slice(plaintext, 12, 20)])
        ELSE parsed

sapling_parse_note_plaintext_without_memo(p, h, plaintext, how) ==
    sapling_parse_With(p, h, plaintext, how, TRUE, COMPACT_NOTE_SIZE)

\* the checks of sapling_parse_note_plaintext_without_memo in the order of
\* its statements, each with what it decides on this plaintext; a check is
\* reached only when every check before it has passed
CheckOrder_DiversifierSecond ==
    <<"version", "diversifier", "value", "asset_type", "rseed", "pk_d", "note">>

CheckOrder ==
    <<"version", "value", "asset_type", "rseed", "diversifier", "pk_d", "note">>

sapling_parse_Passes(p, h, plaintext, how, check) ==
    LET diversifier == Slice(plaintext, 1, 12)
        pk_d == get_validated_pk_d(how, diversifier)
        to == PaymentAddress_from_parts(diversifier, pk_d.val)
    IN  CASE check = "version" -> plaintext_version_is_valid(p, h, plaintext[1])
          [] check = "value" ->
                 IsSome(Amount_from_u64_le_bytes(Slice(plaintext, 12, 20)))
          [] check = "asset_type" ->
                 IsSome(AssetType_from_identifier(Slice(plaintext, 20, 52)))
          [] check = "rseed" ->
                 plaintext[1] = 1 =>
                     IsSome(Fr_from_repr(Slice(plaintext, 52, COMPACT_NOTE_SIZE)))
          [] check = "diversifier" -> IsSome(pk_d)
          [] check = "pk_d" -> IsSome(pk_d) /\ IsSome(to)
          [] check = "note" -> IsSome(pk_d) /\ IsSome(to) /\ IsSome(g_d(diversifier))

\* the checks evaluated on a plaintext: the order up to the first that fails
sapling_parse_Evaluated(p, h, plaintext, how) ==
    LET failing == {i \in DOMAIN CheckOrder :
                       ~sapling_parse_Passes(p, h, plaintext, how, CheckOrder[i])}
        last == IF failing = {} THEN Len(CheckOrder)
                ELSE CHOOSE i \in failing : \A j \in failing : i <= j
    IN  [checks |-> SubSeq(CheckOrder, 1, last), rejected |-> failing # {}]

---------------------------------------------------------------------------
(* impl Domain for SaplingDomain *)

derive_esk(note) == Note_derive_esk(note)
get_pk_d(note) == note.pk_d
ka_derive_public(note, esk) == PointMul(note.g_d, esk)
ka_agree_enc_NoCofactor(esk, pk_d) == PointMul(pk_d, esk)

ka_agree_enc(esk, pk_d) == sapling_ka_agree(esk, pk_d)
ka_agree_dec(ivk_, epk_) == sapling_ka_agree(ivk_, epk_)
kdf(dhsecret, epk_) == kdf_sapling(dhsecret, epk_)
derive_ock(ovk_, cv, cmu_bytes, epk_) == prf_ock(ovk_, cv, cmu_bytes, epk_)

epk_AcceptsAnyBytes(ephemeral_key) == Some(ephemeral_key[1] % GroupOrder)

epk(ephemeral_key) == ExtendedPoint_from_bytes(ephemeral_key)

parse_note_plaintext_without_memo_ivk(p, h, ivk_, plaintext) ==
    sapling_parse_note_plaintext_without_memo(p, h, plaintext, ByIvk(ivk_))

parse_note_plaintext_without_memo_ovk(p, h, pk_d, esk, ephemeral_key, plaintext) ==
    sapling_parse_note_plaintext_without_memo(p, h, plaintext,
        ByOvk(pk_d, esk, ephemeral_key))

cmstar_Fixed(note) == [cm_random |-> 0]

cmstar(note) == Note_cmu(note)

extract_pk_d(op) == SubgroupPoint_from_bytes(Slice(op, 0, 32))

extract_esk(op) == Fr_from_repr(Slice(op, 32, OUT_PLAINTEXT_SIZE))

\* MemoBytes::from_bytes: an error for more than MemoSize bytes, else zero-padded
MemoBytes_from_bytes(b) ==
    IF Len(b) > MemoSize THEN None
    ELSE Some(b \o Zeros(MemoSize - Len(b)))

\* SaplingDomain::extract_memo: unwraps
extract_memo(plaintext) ==
    LET m == MemoBytes_from_bytes(Slice(plaintext, COMPACT_NOTE_SIZE, NOTE_PLAINTEXT_SIZE))
    IN  IF IsSome(m) THEN m ELSE Panic

---------------------------------------------------------------------------
(* impl BatchDomain for SaplingDomain *)

RECURSIVE FilterSome(_)
FilterSome(opts) ==
    IF opts = <<>> THEN <<>>
    ELSE IF IsSome(Head(opts)) THEN <<Head(opts).val>> \o FilterSome(Tail(opts))
    ELSE FilterSome(Tail(opts))

\* how many of the first i options are Some: the position the iterator over
\* the normalized secrets has reached at item i
SomeUpTo(opts, i) == Cardinality({j \in 1..i : IsSome(opts[j])})

batch_kdf(items) ==
    LET shared_secrets == [i \in 1..Len(items) |-> items[i].secret]
        ephemeral_keys == [i \in 1..Len(items) |-> items[i].ephemeral_key]
        secrets == FilterSome(shared_secrets)
        secrets_affine == batch_normalize(secrets,
                              [i \in 1..Len(shared_secrets) |-> Identity])
    IN  IF secrets_affine = Panic THEN Panic
        ELSE Some([i \in 1..Len(items) |->
                 IF IsSome(shared_secrets[i])
                 THEN Some(Blake2b(KDF_SAPLING_PERSONALIZATION,
                          <<PointToBytes(secrets_affine.val[SomeUpTo(shared_secrets, i)]),
                            ephemeral_keys[i]>>))
                 ELSE None])

batch_epk_DropsInvalid(ephemeral_keys) ==
    LET epks == AffinePoint_batch_from_bytes(ephemeral_keys)
        kept == SelectSeq([i \in 1..Len(ephemeral_keys) |->
                              [epk |-> epks[i], bytes |-> ephemeral_keys[i]]],
                          LAMBDA x : IsSome(x.epk))
    IN  kept

batch_epk(ephemeral_keys) ==
    LET epks == AffinePoint_batch_from_bytes(ephemeral_keys)
    IN  [i \in 1..Len(ephemeral_keys) |->
            [epk |-> epks[i], bytes |-> ephemeral_keys[i]]]

---------------------------------------------------------------------------
(* masp_note_encryption: the encryption context *)

NoContext == [tag |-> "NoContext"]

\* NoteEncryption::new_with_esk
new_with_esk(esk, ovk_, note, to, memo_) ==
    [tag |-> "NoteEncryption", epk |-> ka_derive_public(note, esk), esk |-> esk,
     note |-> note, to |-> to, memo |-> memo_, ovk |-> ovk_]

sapling_note_encryption_DefaultOvk(ovk_, note, to, memo_, rng) ==
    new_with_esk(generate_or_derive_esk_internal(note, rng),
                 IF IsSome(ovk_) THEN ovk_ ELSE Some(Zeros(32)), note, to, memo_)

\* sapling_note_encryption
sapling_note_encryption(ovk_, note, to, memo_, rng) ==
    new_with_esk(generate_or_derive_esk_internal(note, rng), ovk_, note, to, memo_)

\* NoteEncryption::encrypt_note_plaintext
encrypt_note_plaintext(c) ==
    LET shared_secret == ka_agree_enc(c.esk, get_pk_d(c.note))
        key == kdf(shared_secret, epk_bytes(c.epk))
    IN  encrypt_in_place_detached(key, note_plaintext_bytes(c.note, c.to, c.memo))

\* NoteEncryption::encrypt_outgoing_plaintext; without an ovk the key and the
\* plaintext are the random bytes rng gives
encrypt_outgoing_plaintext(c, cv, cmu, rng) ==
    IF IsSome(c.ovk)
    THEN encrypt_in_place_detached(
             derive_ock(c.ovk.val, cv, cmu, epk_bytes(c.epk)),
             outgoing_plaintext_bytes(c.note, c.esk))
    ELSE encrypt_in_place_detached(rng.ock, rng.op)

---------------------------------------------------------------------------
(* masp_note_encryption: the decryption routines *)

\* check_note_validity
check_note_validity(note, ephemeral_key, cmstar_bytes) ==
    IF cmstar(note) = cmstar_bytes
    THEN IF IsSome(derive_esk(note))
         THEN epk_bytes(ka_derive_public(note, derive_esk(note).val)) = ephemeral_key
         ELSE TRUE
    ELSE FALSE

\* parse_note_plaintext_without_memo_ivk of the generic crate
checked_parse_ivk(p, h, ivk_, ephemeral_key, cmstar_bytes, plaintext) ==
    LET parsed == parse_note_plaintext_without_memo_ivk(p, h, ivk_, plaintext)
    IN  IF ~IsSome(parsed) THEN parsed
        ELSE IF check_note_validity(parsed.val.note, ephemeral_key, cmstar_bytes)
             THEN parsed
             ELSE None

try_note_decryption_inner(p, h, ivk_, ephemeral_key, out, key) ==
    LET plaintext == decrypt_in_place_detached(key, out.enc_ciphertext)
        parsed == checked_parse_ivk(p, h, ivk_, ephemeral_key, out.cmu, plaintext.val)
        memo_ == extract_memo(plaintext.val)
    IN  IF ~IsSome(plaintext) THEN None
        ELSE IF ~IsSome(parsed) THEN parsed
        ELSE IF ~IsSome(memo_) THEN Panic
        ELSE Some([note |-> parsed.val.note, to |-> parsed.val.to, memo |-> memo_.val])

try_note_decryption(p, h, ivk_, out) ==
    LET e == epk(out.ephemeral_key)
        key == kdf(ka_agree_dec(ivk_, e.val), out.ephemeral_key)
    IN  IF ~IsSome(e) THEN None
        ELSE try_note_decryption_inner(p, h, ivk_, out.ephemeral_key, out, key)

try_compact_note_decryption_inner(p, h, ivk_, ephemeral_key, out, key) ==
    LET plaintext == ChaCha20(key, out.enc_ciphertext.k, out.enc_ciphertext.pt)
    IN  checked_parse_ivk(p, h, ivk_, ephemeral_key, out.cmu, plaintext)

try_compact_note_decryption(p, h, ivk_, out) ==
    LET e == epk(out.ephemeral_key)
        key == kdf(ka_agree_dec(ivk_, e.val), out.ephemeral_key)
    IN  IF ~IsSome(e) THEN None
        ELSE try_compact_note_decryption_inner(p, h, ivk_, out.ephemeral_key, out, key)

try_output_recovery_with_ock(p, h, ock_, out, out_ciphertext) ==
    LET op == decrypt_in_place_detached(ock_, out_ciphertext)
        pk_d == extract_pk_d(op.val)
        esk == extract_esk(op.val)
        ephemeral_key == out.ephemeral_key
        shared_secret == ka_agree_enc(esk.val, pk_d.val)
        key == kdf(shared_secret, ephemeral_key)
        plaintext == decrypt_in_place_detached(key, out.enc_ciphertext)
        parsed == parse_note_plaintext_without_memo_ovk(
                      p, h, pk_d.val, esk.val, ephemeral_key, plaintext.val)
        memo_ == extract_memo(plaintext.val)
        derived == derive_esk(parsed.val.note)
    IN  IF ~IsSome(op) THEN None
        ELSE IF ~IsSome(pk_d) THEN None
        ELSE IF ~IsSome(esk) THEN None
        ELSE IF ~IsSome(plaintext) THEN None
        ELSE IF ~IsSome(parsed) THEN parsed
        ELSE IF ~IsSome(memo_) THEN Panic
        ELSE IF IsSome(derived) /\ derived.val # esk.val THEN None
        ELSE IF check_note_validity(parsed.val.note, ephemeral_key, out.cmu)
             THEN Some([note |-> parsed.val.note, to |-> parsed.val.to, memo |-> memo_.val])
             ELSE None

try_output_recovery_with_ovk(p, h, ovk_, out, cv, out_ciphertext) ==
    try_output_recovery_with_ock(p, h,
        derive_ock(ovk_, cv, out.cmu, out.ephemeral_key), out, out_ciphertext)

\* batch::try_note_decryption: every ivk against every output, ivk-major
batch_try_note_decryption(ivks, outputs) ==
    LET n == Len(outputs)
        ephemeral_keys == batch_epk([j \in 1..n |-> outputs[j].out.ephemeral_key])
        ivkOf(x) == ivks[((x - 1) \div n) + 1]
        outOf(x) == ((x - 1) % n) + 1
        items == [x \in 1..(Len(ivks) * n) |->
                    [secret |-> IF IsSome(ephemeral_keys[outOf(x)].epk)
                                THEN Some(ka_agree_dec(ivkOf(x),
                                              ephemeral_keys[outOf(x)].epk.val))
                                ELSE None,
                     ephemeral_key |-> ephemeral_keys[outOf(x)].bytes]]
        keys == batch_kdf(items)
    IN  IF keys = Panic THEN Panic
        ELSE Some([x \in 1..(Len(ivks) * n) |->
                 IF IsSome(keys.val[x])
                 THEN try_note_decryption_inner(
                          outputs[outOf(x)].params, outputs[outOf(x)].height, ivkOf(x),
                          ephemeral_keys[outOf(x)].bytes, outputs[outOf(x)].out,
                          keys.val[x].val)
                 ELSE None])

---------------------------------------------------------------------------
(* The four entry points of note_encryption.rs *)

\* impl From<OutputDescription> for CompactOutputDescription
CompactOutputDescription_from(out) ==
    [ephemeral_key |-> out.ephemeral_key, cmu |-> out.cmu,
     enc_ciphertext |-> [k |-> out.enc_ciphertext.k,
                         pt |-> SubSeq(out.enc_ciphertext.pt, 1, COMPACT_NOTE_SIZE)]]

try_sapling_note_decryption_Unauthenticated(p, h, ivk_, out) ==
    LET r == try_compact_note_decryption(p, h, ivk_, CompactOutputDescription_from(out))
    IN  IF IsSome(r)
        THEN Some([note |-> r.val.note, to |-> r.val.to,
                   memo |-> Slice(out.enc_ciphertext.pt, COMPACT_NOTE_SIZE,
                                  NOTE_PLAINTEXT_SIZE)])
        ELSE r

try_sapling_note_decryption(p, h, ivk_, out) ==
    try_note_decryption(p, h, ivk_, out)

try_sapling_compact_note_decryption_NextHeight(p, h, ivk_, out) ==
    try_compact_note_decryption(p, h + 1, ivk_, out)

try_sapling_compact_note_decryption(p, h, ivk_, out) ==
    try_compact_note_decryption(p, h, ivk_, out)

try_sapling_output_recovery_with_ock_ChecksCv(p, h, ock_, out) ==
    IF InSubgroup(out.cv)
    THEN try_output_recovery_with_ock(p, h, ock_, out, out.out_ciphertext)
    ELSE None

try_sapling_output_recovery_with_ock(p, h, ock_, out) ==
    try_output_recovery_with_ock(p, h, ock_, out, out.out_ciphertext)

try_sapling_output_recovery(p, h, ovk_, out) ==
    try_output_recovery_with_ovk(p, h, ovk_, out, out.cv, out.out_ciphertext)

---------------------------------------------------------------------------
(* Inputs *)

TestDiversifier == Repeat(10, 11)
OtherDiversifier == LeadThenZeros(4, 11)
InvalidDiversifier == LeadThenZeros(1, 11)

BTC == [identifier |-> LeadThenZeros(66, 32)]

\* the choices of a sender, as lists
Diversifiers == <<TestDiversifier, OtherDiversifier>>
Values == <<U64(100)>>
Rseeds ==
    << BeforeZip212(1),
       AfterZip212(LeadThenZeros(2, 32)),
       AfterZip212(Repeat(250, 32)) >>
Memos == <<Zeros(MemoSize), Repeat(7, MemoSize)>>

Ovk0 == Zeros(32)
RawKey(b) == [raw |-> b]

\* the bytes the RNG gives encrypt_outgoing_plaintext when there is no ovk
OutRng == [ock |-> RawKey(Repeat(9, 32)), op |-> Repeat(3, OUT_PLAINTEXT_SIZE)]

NotRun == [tag |-> "NotRun"]
NoOutput == [tag |-> "NoOutput"]
NoCall == [op |-> "none"]
NoResults == [note |-> NotRun, compact |-> NotRun, ovk |-> NotRun, ock |-> NotRun]
QuietNoise == Zeros(NOTE_PLAINTEXT_SIZE)

---------------------------------------------------------------------------
(* Sending: build the note, encrypt it, assemble the OutputDescription *)

\* random_enc_ciphertext_with of the tests, its random choices as arguments:
\* the encryption context, the ock and the OutputDescription
random_enc_ciphertext_with(ivk_, d, value, rseed, memo_, ovk_, rng) ==
    LET pk_d == PointMul(g_d(d).val, ivk_)
        pa == PaymentAddress_from_parts_unchecked(d, pk_d)
        cv == ValueCommitment_commitment(
                  [asset_generator |-> asset_generator(BTC), value |-> value,
                   randomness |-> 1])
        note == PaymentAddress_create_note(pa, BTC, value, rseed).val
        cmu == Note_cmu(note)
        c == sapling_note_encryption(ovk_, note, pa, memo_, rng)
    IN  [ne |-> c,
         ock |-> prf_ock(Ovk0, cv, cmu, epk_bytes(c.epk)),
         output |-> [cv |-> cv, cmu |-> cmu,
                     ephemeral_key |-> PointToBytes(c.epk),
                     enc_ciphertext |-> encrypt_note_plaintext(c),
                     out_ciphertext |-> encrypt_outgoing_plaintext(c, cv, cmu, OutRng)]]

Send(ivks, diversifiers, values, rseeds, memos, ovks, esks) ==
    /\ pc = "start"
    /\ \E ivk_ \in ivks, d \in DOMAIN diversifiers, value \in DOMAIN values,
          rseed \in DOMAIN rseeds, memo_ \in DOMAIN memos, ovk_ \in DOMAIN ovks,
          rng \in esks :
        LET sent == random_enc_ciphertext_with(ivk_, diversifiers[d], values[value],
                        rseeds[rseed], memos[memo_], ovks[ovk_], rng)
        IN  /\ ne' = sent.ne
            /\ ivk' = ivk_
            /\ ovk' = Ovk0
            /\ ock' = sent.ock
            /\ output' = sent.output
            /\ call' = [op |-> "sapling_note_encryption", ovk |-> ovks[ovk_]]
    /\ pc' = "sent"
    /\ UNCHANGED <<params, height, tamper, res, noise>>

---------------------------------------------------------------------------
(* Scanning: the four decryption entry points, each called once *)

DecryptNote ==
    /\ pc = "sent" /\ res.note = NotRun
    /\ res' = [res EXCEPT !.note =
                  try_sapling_note_decryption(params, height, ivk, output)]
    /\ UNCHANGED <<params, height, pc, ne, ivk, ovk, ock, output, tamper, call, noise>>

DecryptCompact_AfterFull ==
    /\ pc = "sent" /\ res.compact = NotRun
    /\ res' = [res EXCEPT !.compact =
                  LET full == try_sapling_note_decryption(params, height, ivk, output)
                  IN  IF IsSome(full)
                      THEN Some([note |-> full.val.note, to |-> full.val.to])
                      ELSE full]
    /\ UNCHANGED <<params, height, pc, ne, ivk, ovk, ock, output, tamper, call, noise>>

DecryptCompact ==
    /\ pc = "sent" /\ res.compact = NotRun
    /\ res' = [res EXCEPT !.compact =
                  try_sapling_compact_note_decryption(params, height, ivk,
                      CompactOutputDescription_from(output))]
    /\ UNCHANGED <<params, height, pc, ne, ivk, ovk, ock, output, tamper, call, noise>>

RecoverWithOvk ==
    /\ pc = "sent" /\ res.ovk = NotRun
    /\ res' = [res EXCEPT !.ovk =
                  try_sapling_output_recovery(params, height, ovk, output)]
    /\ UNCHANGED <<params, height, pc, ne, ivk, ovk, ock, output, tamper, call, noise>>

RecoverWithOck ==
    /\ pc = "sent" /\ res.ock = NotRun
    /\ res' = [res EXCEPT !.ock =
                  try_sapling_output_recovery_with_ock(params, height, ock, output)]
    /\ UNCHANGED <<params, height, pc, ne, ivk, ovk, ock, output, tamper, call, noise>>

---------------------------------------------------------------------------
(* What can happen to an output between sending and scanning *)

Untouched == pc = "sent" /\ tamper = "none" /\ res = NoResults

FlipTag(ct, byte) == [ct EXCEPT !.tag = [flipped |-> byte, of |-> ct.tag]]

\* enc_ciphertext[NOTE_PLAINTEXT_SIZE + byte] ^= 0xff
TamperEncTag ==
    /\ Untouched
    /\ \E byte \in {0, 15} :
        output' = [output EXCEPT !.enc_ciphertext = FlipTag(@, byte)]
    /\ tamper' = "enc_tag"
    /\ UNCHANGED <<params, height, pc, ne, ivk, ovk, ock, res, call, noise>>

\* enc_ciphertext[COMPACT_NOTE_SIZE + byte] ^= 0xff: under the stream cipher
\* the same byte of the plaintext is flipped, and the tag stays what it was
TamperEncMemo ==
    /\ Untouched
    /\ \E byte \in 0..MemoSize - 1 :
        output' = [output EXCEPT !.enc_ciphertext.pt =
                      Splice(@, COMPACT_NOTE_SIZE + byte,
                             <<255 - @[COMPACT_NOTE_SIZE + byte + 1]>>)]
    /\ tamper' = "enc_memo"
    /\ UNCHANGED <<params, height, pc, ne, ivk, ovk, ock, res, call, noise>>

\* out_ciphertext[OUT_PLAINTEXT_SIZE + byte] ^= 0xff
TamperOutTag ==
    /\ Untouched
    /\ \E byte \in {0, 15} :
        output' = [output EXCEPT !.out_ciphertext = FlipTag(@, byte)]
    /\ tamper' = "out_tag"
    /\ UNCHANGED <<params, height, pc, ne, ivk, ovk, ock, res, call, noise>>

\* output.cmu = a random scalar
TamperCmu ==
    /\ Untouched
    /\ output' = [output EXCEPT !.cmu = [cm_random |-> 0]]
    /\ tamper' = "cmu"
    /\ UNCHANGED <<params, height, pc, ne, ivk, ovk, ock, res, call, noise>>

\* reencrypt_enc_ciphertext of the tests: decrypt both ciphertexts with the
\* sender's keys, change the note plaintext (modify: the bytes to write and
\* their offset), encrypt it again under the same key.  Each step is unwrapped
\* there: a step that fails ends the test, None here.
reencrypt_enc_ciphertext(ovk_, out, modify) ==
    LET ock_ == prf_ock(ovk_, out.cv, out.cmu, out.ephemeral_key)
        op == decrypt_in_place_detached(ock_, out.out_ciphertext)
        pk_d == SubgroupPoint_from_bytes(Slice(op.val, 0, 32))
        esk == Fr_from_repr(Slice(op.val, 32, OUT_PLAINTEXT_SIZE))
        key == kdf_sapling(sapling_ka_agree(esk.val, pk_d.val), out.ephemeral_key)
        plaintext == decrypt_in_place_detached(key, out.enc_ciphertext)
    IN  IF ~IsSome(op) THEN None
        ELSE IF ~IsSome(pk_d) \/ ~IsSome(esk) THEN None
        ELSE IF ~IsSome(plaintext) THEN None
        ELSE Some([out EXCEPT !.enc_ciphertext =
                      encrypt_in_place_detached(key,
                          Splice(plaintext.val, modify.at, modify.bytes))])

\* the note plaintext re-encrypted with another leading byte
TamperLeadByte ==
    /\ Untouched /\ IsSome(ne.ovk)
    /\ \E b \in {1, 2, 3} :
        LET forged == reencrypt_enc_ciphertext(ovk, output,
                          [at |-> 0, bytes |-> <<b>>])
        IN  /\ b # output.enc_ciphertext.pt[1]
            /\ IsSome(forged)
            /\ output' = forged.val
    /\ tamper' = "leadbyte"
    /\ UNCHANGED <<params, height, pc, ne, ivk, ovk, ock, res, call, noise>>

\* output.ephemeral_key = the encoding of another curve point: the sender's
\* point moved by a point of small order, by a point of the subgroup, or by
\* a point that is neither
TamperEpk ==
    /\ Untouched
    /\ \E shift \in {5, 8, 11} :
        output' = [output EXCEPT !.ephemeral_key =
                      PointToBytes(PointAdd(ne.epk, shift))]
    /\ tamper' = "epk"
    /\ UNCHANGED <<params, height, pc, ne, ivk, ovk, ock, res, call, noise>>

\* the scanner holds another incoming viewing key than the recipient's
WrongIvk ==
    /\ Untouched
    /\ \E k \in 0..(SubgroupOrder - 1) : k # ivk /\ ivk' = k
    /\ tamper' = "ivk"
    /\ UNCHANGED <<params, height, pc, ne, ovk, ock, output, res, call, noise>>

\* ovk.0[0] ^= 0xff
WrongOvk ==
    /\ Untouched
    /\ ovk' = Splice(ovk, 0, <<255 - ovk[1]>>)
    /\ tamper' = "ovk"
    /\ UNCHANGED <<params, height, pc, ne, ivk, ock, output, res, call, noise>>

\* output.cv = another point: the sender's moved by a point of small order
\* or by a point of the subgroup
TamperCv ==
    /\ Untouched
    /\ \E shift \in {5, 8} :
        output' = [output EXCEPT !.cv = PointAdd(@, shift)]
    /\ tamper' = "cv"
    /\ UNCHANGED <<params, height, pc, ne, ivk, ovk, ock, res, call, noise>>

\* the ock handed to the recovery is OutgoingCipherKey([0u8; 32]), or the
\* ock of another ovk
WrongOck ==
    /\ Untouched
    /\ \E other \in 1..2 :
        ock' = IF other = 1 THEN RawKey(Zeros(32))
               ELSE prf_ock(Repeat(255, 32), output.cv, output.cmu,
                            output.ephemeral_key)
    /\ tamper' = "ock"
    /\ UNCHANGED <<params, height, pc, ne, ivk, ovk, output, res, call, noise>>

\* pt[1..12] of the note plaintext overwritten and the plaintext encrypted
\* again under the same key: with a diversifier that has no g_d, or with
\* another diversifier of the sender's list
TamperDiversifier ==
    /\ Untouched /\ IsSome(ne.ovk)
    /\ \E d \in 0..Len(Diversifiers) :
        LET bytes == IF d = 0 THEN InvalidDiversifier ELSE Diversifiers[d]
            forged == reencrypt_enc_ciphertext(ovk, output,
                          [at |-> 1, bytes |-> bytes])
        IN  /\ bytes # ne.to.diversifier
            /\ IsSome(forged)
            /\ output' = forged.val
    /\ tamper' = "diversifier"
    /\ UNCHANGED <<params, height, pc, ne, ivk, ovk, ock, res, call, noise>>

---------------------------------------------------------------------------
(* The specification: one output sent on TEST_NETWORK, then scanned *)

Init ==
    /\ params = TEST_NETWORK
    /\ height \in 0..MaxHeight
    /\ pc = "start"
    /\ ne = NoContext
    /\ ivk = 0
    /\ ovk = Ovk0
    /\ ock = RawKey(Zeros(32))
    /\ output = NoOutput
    /\ tamper = "none"
    /\ res = NoResults
    /\ call = NoCall
    /\ noise = QuietNoise

SendNote ==
    Send({1, 3}, Diversifiers, Values, Rseeds, Memos, <<None, Some(Ovk0)>>, {0, 2})

\* recovery_with_invalid_pk_d of the tests: the output is encrypted to the
\* address of ivk = 0, whose pk_d is the identity
SendToIdentity ==
    /\ pc = "start"
    /\ \E rseed \in DOMAIN Rseeds, rng \in {0, 2} :
        LET sent == random_enc_ciphertext_with(0, TestDiversifier, Values[1],
                        Rseeds[rseed], Zeros(MemoSize), Some(Ovk0), rng)
        IN  /\ ne' = sent.ne
            /\ ivk' = 0
            /\ ovk' = Ovk0
            /\ ock' = sent.ock
            /\ output' = sent.output
    /\ pc' = "sent"
    /\ tamper' = "pk_d"
    /\ UNCHANGED <<params, height, res, call, noise>>

\* a note whose value is above MAX_MONEY: create_note takes any u64 and
\* note_plaintext_bytes writes it as it is
OverMaxValues == << <<1, 64, 7, 90, 240, 117, 7, 0>>, Repeat(255, 8) >>

SendOverMax ==
    /\ pc = "start"
    /\ \E value \in DOMAIN OverMaxValues, rseed \in DOMAIN Rseeds, rng \in {0, 2} :
        LET sent == random_enc_ciphertext_with(1, TestDiversifier,
                        OverMaxValues[value], Rseeds[rseed], Zeros(MemoSize),
                        Some(Ovk0), rng)
        IN  /\ ne' = sent.ne
            /\ ivk' = 1
            /\ ovk' = Ovk0
            /\ ock' = sent.ock
            /\ output' = sent.output
    /\ pc' = "sent"
    /\ tamper' = "value"
    /\ UNCHANGED <<params, height, res, call, noise>>

Next ==
    \/ SendNote
    \/ SendToIdentity
    \/ SendOverMax
    \/ TamperEncTag
    \/ TamperEncMemo
    \/ TamperOutTag
    \/ TamperCmu
    \/ TamperLeadByte
    \/ TamperEpk
    \/ TamperDiversifier
    \/ WrongIvk
    \/ WrongOvk
    \/ TamperCv
    \/ WrongOck
    \/ DecryptNote
    \/ DecryptCompact
    \/ RecoverWithOvk
    \/ RecoverWithOck

Spec == Init /\ [][Next]_vars

---------------------------------------------------------------------------
(* The version gate on its own: any activation height, any height, any byte *)

\* a network without Canopy, or with Canopy activating at height a
Network(a) == IF a < 0 THEN [canopy |-> None] ELSE [canopy |-> Some(a)]

LeadBytes == {0, 1, 2, 3, 255}

InitGate ==
    /\ \E a \in -1..MaxActivation : params = Network(a)
    /\ height \in 0..MaxHeight
    /\ pc = "start"
    /\ ne = NoContext
    /\ ivk = 0
    /\ ovk = Ovk0
    /\ ock = RawKey(Zeros(32))
    /\ output = NoOutput
    /\ tamper = "none"
    /\ res = NoResults
    /\ call = NoCall
    /\ noise = QuietNoise

CheckVersion ==
    /\ \E leadbyte \in LeadBytes :
        call' = [op |-> "plaintext_version_is_valid", leadbyte |-> leadbyte,
                 result |-> plaintext_version_is_valid(params, height, leadbyte)]
    /\ UNCHANGED <<params, height, pc, ne, ivk, ovk, ock, output, tamper, res, noise>>

NextGate == CheckVersion

SpecGate == InitGate /\ [][NextGate]_vars

---------------------------------------------------------------------------
(* The batch functions: called on sequences of at most MaxBatch items *)

\* a batch: the items of the list S at the positions picked
Picks(S, k) == [1..k -> DOMAIN S]
Batch(S, pick) == [i \in DOMAIN pick |-> S[pick[i]]]

\* ephemeral key encodings: a point of the subgroup, a point outside it, a
\* value beyond the group order, the identity with the sign bit set
NonCanonicalKey == LeadThenZeros(GroupOrder, 32)
SignBitKey == Zeros(31) \o <<128>>
EphemeralKeys == <<PointToBytes(16), PointToBytes(3), NonCanonicalKey, SignBitKey>>

KdfItems ==
    << [secret |-> None, ephemeral_key |-> PointToBytes(16)],
       [secret |-> Some(8), ephemeral_key |-> PointToBytes(16)],
       [secret |-> Some(24), ephemeral_key |-> PointToBytes(16)],
       [secret |-> None, ephemeral_key |-> NonCanonicalKey],
       [secret |-> Some(8), ephemeral_key |-> NonCanonicalKey],
       [secret |-> Some(24), ephemeral_key |-> NonCanonicalKey] >>

\* the outputs a scanner meets at a height: two honest ones for different
\* ivks and plaintext versions, and the first with an ephemeral key that
\* does not decode
HonestV1 ==
    random_enc_ciphertext_with(1, TestDiversifier, U64(100), BeforeZip212(1),
        Zeros(MemoSize), Some(Ovk0), 2).output
HonestV2 ==
    random_enc_ciphertext_with(3, OtherDiversifier, U64(100),
        AfterZip212(LeadThenZeros(2, 32)),
        Zeros(MemoSize), None, 0).output
BadEpk == [HonestV1 EXCEPT !.ephemeral_key = NonCanonicalKey]
ScannedOutputs(h) ==
    << [params |-> TEST_NETWORK, height |-> h, out |-> HonestV1],
       [params |-> TEST_NETWORK, height |-> h, out |-> HonestV2],
       [params |-> TEST_NETWORK, height |-> h, out |-> BadEpk] >>

InitBatch ==
    /\ params = TEST_NETWORK
    /\ height \in 0..MaxHeight
    /\ pc = "start"
    /\ ne = NoContext
    /\ ivk = 0
    /\ ovk = Ovk0
    /\ ock = RawKey(Zeros(32))
    /\ output = NoOutput
    /\ tamper = "none"
    /\ res = NoResults
    /\ call = NoCall
    /\ noise = QuietNoise

CallBatchKdf ==
    /\ call = NoCall
    /\ \E k \in 0..MaxBatch : \E pick \in Picks(KdfItems, k) :
        LET items == Batch(KdfItems, pick)
        IN  call' = [op |-> "batch_kdf", items |-> items, result |-> batch_kdf(items)]
    /\ UNCHANGED <<params, height, pc, ne, ivk, ovk, ock, output, tamper, res, noise>>

CallBatchEpk ==
    /\ call = NoCall
    /\ \E k \in 0..MaxBatch : \E pick \in Picks(EphemeralKeys, k) :
        LET keys == Batch(EphemeralKeys, pick)
        IN  call' = [op |-> "batch_epk", ephemeral_keys |-> keys,
                     result |-> batch_epk(keys)]
    /\ UNCHANGED <<params, height, pc, ne, ivk, ovk, ock, output, tamper, res, noise>>

CallBatchDecrypt ==
    /\ call = NoCall
    /\ \E m \in 0..2, k \in 0..MaxBatch :
       \E pickIvk \in Picks(<<1, 3>>, m), pick \in Picks(ScannedOutputs(height), k) :
        LET ivks == Batch(<<1, 3>>, pickIvk)
            outputs == Batch(ScannedOutputs(height), pick)
        IN  call' = [op |-> "batch_try_note_decryption", ivks |-> ivks,
                     outputs |-> outputs,
                     result |-> batch_try_note_decryption(ivks, outputs)]
    /\ UNCHANGED <<params, height, pc, ne, ivk, ovk, ock, output, tamper, res, noise>>

NextBatch ==
    \/ CallBatchKdf
    \/ CallBatchEpk
    \/ CallBatchDecrypt

SpecBatch == InitBatch /\ [][NextBatch]_vars

---------------------------------------------------------------------------
(* An adversary's output: every field of a sent output is open to change
   before the scanner sees it *)

\* note plaintexts an adversary who knows the key can have encrypted
ForgedPlaintext(pt, c) ==
    CASE c = 1 -> Splice(pt, 0, <<0>>)                    \* no such version
      [] c = 2 -> Splice(pt, 0, <<3>>)                    \* no such version
      [] c = 3 -> Splice(pt, 1, InvalidDiversifier)       \* no g_d
      [] c = 4 -> Splice(pt, 12, Repeat(255, 8))          \* above MAX_MONEY
      [] c = 5 -> Splice(pt, 20, LeadThenZeros(1, 32))    \* no such asset
      [] c = 6 -> Splice(pt, 52, Repeat(255, 32))         \* no canonical rcm
      [] c = 7 -> Splice(pt, COMPACT_NOTE_SIZE, Repeat(9, MemoSize))
      [] OTHER -> pt

ForgedEnc(ct, c) ==
    IF c = 8 THEN FlipTag(ct, 0)
    ELSE encrypt_in_place_detached(ct.k, ForgedPlaintext(ct.pt, c))

\* outgoing plaintexts encrypted under the ock the scanner holds
ForgedOutPlaintext(op, c) ==
    CASE c = 1 -> Splice(op, 0, NonCanonicalKey)          \* pk_d: no encoding
      [] c = 2 -> Splice(op, 0, PointToBytes(Identity))   \* pk_d: the identity
      [] c = 3 -> Splice(op, 0, PointToBytes(3))          \* pk_d: outside the subgroup
      [] c = 4 -> Splice(op, 32, Repeat(255, 32))         \* esk: no canonical scalar
      [] c = 5 -> Splice(op, 32, ScalarToRepr(1))         \* esk: another scalar
      [] OTHER -> op

ForgedOut(ct, c) ==
    IF c = 6 THEN FlipTag(ct, 0)
    ELSE encrypt_in_place_detached(ct.k, ForgedOutPlaintext(ct.pt, c))

ForgedEpk(bytes, c) == IF c = 0 THEN bytes ELSE EphemeralKeys[c + 1]

Forge ==
    /\ Untouched
    /\ \E e \in 0..3, p \in 0..8, o \in 0..6, c \in 0..1 :
        output' = [cv |-> IF c = 1 THEN PointAdd(output.cv, Cofactor) ELSE output.cv,
                   cmu |-> IF c = 1 THEN [cm_random |-> 0] ELSE output.cmu,
                   ephemeral_key |-> ForgedEpk(output.ephemeral_key, e),
                   enc_ciphertext |-> ForgedEnc(output.enc_ciphertext, p),
                   out_ciphertext |-> ForgedOut(output.out_ciphertext, o)]
    /\ tamper' = "forged"
    /\ UNCHANGED <<params, height, pc, ne, ivk, ovk, ock, res, call, noise>>

\* what a wrong key makes of a ciphertext: bytes that decode to nothing, or
\* bytes that happen to decode to a note
LuckyNoise ==
    <<2>> \o TestDiversifier \o U64(100) \o BTC.identifier \o LeadThenZeros(2, 32)
          \o Zeros(MemoSize)
Noises == <<QuietNoise, LuckyNoise>>

InitAttack ==
    /\ params = TEST_NETWORK
    /\ height \in 0..MaxHeight
    /\ pc = "start"
    /\ ne = NoContext
    /\ ivk = 0
    /\ ovk = Ovk0
    /\ ock = RawKey(Zeros(32))
    /\ output = NoOutput
    /\ tamper = "none"
    /\ res = NoResults
    /\ call = NoCall
    /\ \E n \in DOMAIN Noises : noise = Noises[n]

SendToVictim ==
    Send({1}, <<TestDiversifier>>, Values, Rseeds, <<Zeros(MemoSize)>>, <<Some(Ovk0)>>, {2})

NextAttack ==
    \/ SendToVictim
    \/ Forge
    \/ DecryptNote
    \/ DecryptCompact
    \/ RecoverWithOvk
    \/ RecoverWithOck

SpecAttack == InitAttack /\ [][NextAttack]_vars

---------------------------------------------------------------------------
(* Keys and addresses on the wire: every parser on every encoding, every
   encoder on what was parsed *)

\* 32 bytes that are, or are not, the encoding of a point: points of the
\* subgroup, the identity, a point of small order, a point outside the
\* subgroup, and bytes that encode nothing
PointEncodings ==
    << PointToBytes(Cofactor), PointToBytes(3 * Cofactor), PointToBytes(Identity),
       PointToBytes(SubgroupOrder), PointToBytes(3), NonCanonicalKey, SignBitKey >>

WireDiversifiers ==
    <<TestDiversifier, OtherDiversifier, InvalidDiversifier, Repeat(255, 11)>>

InitKeys ==
    /\ params = TEST_NETWORK
    /\ height = 0
    /\ pc = "start"
    /\ ne = NoContext
    /\ ivk = 0
    /\ ovk = Ovk0
    /\ ock = RawKey(Zeros(32))
    /\ output = NoOutput
    /\ tamper = "none"
    /\ res = NoResults
    /\ call = NoCall
    /\ noise = QuietNoise

\* ViewingKey::read on ak || nk, and on a reader one byte short
ReadViewingKey ==
    /\ call = NoCall
    /\ \E a \in DOMAIN PointEncodings, n \in DOMAIN PointEncodings, short \in 0..1 :
        LET reader == SubSeq(PointEncodings[a] \o PointEncodings[n], 1, 64 - short)
        IN  call' = [op |-> "ViewingKey::read", reader |-> reader,
                     result |-> ViewingKey_read(reader)]
    /\ UNCHANGED <<params, height, pc, ne, ivk, ovk, ock, output, tamper, res, noise>>

\* ViewingKey::to_bytes of a key that was read
WriteViewingKey ==
    /\ call.op = "ViewingKey::read" /\ call.result.tag = "Ok"
    /\ call' = [op |-> "ViewingKey::to_bytes", vk |-> call.result.val,
                 reader |-> call.reader,
                 result |-> ViewingKey_to_bytes(call.result.val)]
    /\ UNCHANGED <<params, height, pc, ne, ivk, ovk, ock, output, tamper, res, noise>>

\* PaymentAddress::from_parts on a diversifier and a point of the subgroup
AddressFromParts ==
    /\ call = NoCall
    /\ \E d \in DOMAIN WireDiversifiers, k \in 0..(SubgroupOrder - 1) :
        call' = [op |-> "PaymentAddress::from_parts",
                 diversifier |-> WireDiversifiers[d], pk_d |-> k * Cofactor,
                 result |-> PaymentAddress_from_parts(WireDiversifiers[d], k * Cofactor)]
    /\ UNCHANGED <<params, height, pc, ne, ivk, ovk, ock, output, tamper, res, noise>>

\* PaymentAddress::from_bytes on 43 bytes
AddressFromBytes ==
    /\ call = NoCall
    /\ \E d \in DOMAIN WireDiversifiers, e \in DOMAIN PointEncodings :
        LET bytes == WireDiversifiers[d] \o PointEncodings[e]
        IN  call' = [op |-> "PaymentAddress::from_bytes", bytes |-> bytes,
                     result |-> PaymentAddress_from_bytes(bytes)]
    /\ UNCHANGED <<params, height, pc, ne, ivk, ovk, ock, output, tamper, res, noise>>

\* PaymentAddress::to_bytes of an address that was parsed, and from_bytes of
\* what it gives
AddressToBytes ==
    /\ call.op = "PaymentAddress::from_bytes" /\ IsSome(call.result)
    /\ LET a == call.result.val
       IN  call' = [op |-> "PaymentAddress::to_bytes", address |-> a,
                    parsed |-> call.bytes,
                    result |-> PaymentAddress_to_bytes(a),
                    again |-> PaymentAddress_from_bytes(PaymentAddress_to_bytes(a))]
    /\ UNCHANGED <<params, height, pc, ne, ivk, ovk, ock, output, tamper, res, noise>>

\* both sides of the key agreement, for a base point g_d of the subgroup
\* other than the identity and scalars esk and ivk
AgreeOnKey ==
    /\ call = NoCall
    /\ \E g \in 1..(SubgroupOrder - 1), esk \in 0..(SubgroupOrder - 1),
          ivk_ \in 0..(SubgroupOrder - 1) :
        LET note == [g_d |-> g * Cofactor, pk_d |-> PointMul(g * Cofactor, ivk_)]
            epk_ == ka_derive_public(note, esk)
            enc == ka_agree_enc(esk, get_pk_d(note))
            dec == ka_agree_dec(ivk_, epk_)
        IN  call' = [op |-> "ka_agree", g_d |-> note.g_d, esk |-> esk, ivk |-> ivk_,
                     pk_d |-> note.pk_d, epk |-> epk_,
                     enc |-> enc, dec |-> dec,
                     key_enc |-> kdf(enc, epk_bytes(epk_)),
                     key_dec |-> kdf(dec, epk_bytes(epk_))]
    /\ UNCHANGED <<params, height, pc, ne, ivk, ovk, ock, output, tamper, res, noise>>

\* BorshDeserialize::deserialize for PaymentAddress on a buffer one byte
\* short, of exactly 43 bytes, and with bytes after the address
DeserializeAddress ==
    /\ call = NoCall
    /\ \E d \in DOMAIN WireDiversifiers, e \in DOMAIN PointEncodings,
          extra \in -1..2 :
        LET buf == SubSeq(WireDiversifiers[d] \o PointEncodings[e] \o <<7, 9>>,
                          1, 43 + extra)
            done == PaymentAddress_deserialize(buf)
        IN  call' = [op |-> "PaymentAddress::deserialize", buf |-> buf,
                     result |-> done.result, rest |-> done.buf]
    /\ UNCHANGED <<params, height, pc, ne, ivk, ovk, ock, output, tamper, res, noise>>

NextKeys ==
    \/ ReadViewingKey
    \/ DeserializeAddress
    \/ AgreeOnKey
    \/ WriteViewingKey
    \/ AddressFromParts
    \/ AddressFromBytes
    \/ AddressToBytes

SpecKeys == InitKeys /\ [][NextKeys]_vars

---------------------------------------------------------------------------
(* The parser on its own: every combination of a good and a bad field *)

PlaintextDiversifiers == <<TestDiversifier, InvalidDiversifier>>
PlaintextValues == <<U64(100), MAX_MONEY, <<1, 64, 7, 90, 240, 117, 7, 0>>, Repeat(255, 8)>>
PlaintextAssets == <<BTC.identifier, LeadThenZeros(1, 32)>>
PlaintextRseeds == <<LeadThenZeros(2, 32), Repeat(255, 32)>>

InitParse ==
    /\ params = TEST_NETWORK
    /\ height \in 0..MaxHeight
    /\ pc = "start"
    /\ ne = NoContext
    /\ ivk = 0
    /\ ovk = Ovk0
    /\ ock = RawKey(Zeros(32))
    /\ output = NoOutput
    /\ tamper = "none"
    /\ res = NoResults
    /\ call = NoCall
    /\ noise = QuietNoise

\* sapling_parse_note_plaintext_without_memo on a compact plaintext, with
\* the closure of the ivk path
ParsePlaintext ==
    /\ call = NoCall
    /\ \E lead \in {1, 2, 3}, d \in DOMAIN PlaintextDiversifiers,
          v \in DOMAIN PlaintextValues, a \in DOMAIN PlaintextAssets,
          r \in DOMAIN PlaintextRseeds, ivk_ \in 0..1 :
        LET plaintext == <<lead>> \o PlaintextDiversifiers[d] \o PlaintextValues[v]
                         \o PlaintextAssets[a] \o PlaintextRseeds[r]
        IN  call' = [op |-> "sapling_parse_note_plaintext_without_memo",
                     plaintext |-> plaintext, ivk |-> ivk_,
                     result |-> sapling_parse_note_plaintext_without_memo(
                                    params, height, plaintext, ByIvk(ivk_)),
                     evaluated |-> sapling_parse_Evaluated(
                                       params, height, plaintext, ByIvk(ivk_))]
    /\ UNCHANGED <<params, height, pc, ne, ivk, ovk, ock, output, tamper, res, noise>>

NextParse == ParsePlaintext

SpecParse == InitParse /\ [][NextParse]_vars

---------------------------------------------------------------------------
(* Properties *)

\* what the sender encrypted, as a decryption result
Original == Some([note |-> ne.note, to |-> ne.to, memo |-> ne.memo])
OriginalCompact == Some([note |-> ne.note, to |-> ne.to])

Intact == pc = "sent" /\ tamper = "none"

\* the sender's note is one the version rule admits at the scanning height:
\* a BeforeZip212 note before the end of the grace period, an AfterZip212
\* note once Canopy is active
HeightAdmitsNote ==
    IF ne.note.rseed.tag = "BeforeZip212"
    THEN height < params.canopy.val + ZIP212_GRACE_PERIOD
    ELSE height >= params.canopy.val

\* C1 as stated: an intact output, trial-decrypted with the matching ivk at
\* any height, gives back the note, the address and the memo.
C1_RoundTripAnyHeight ==
    (Intact /\ res.note # NotRun) => res.note = Original

\* C1 (amended): an intact output, trial-decrypted with the matching ivk at a
\* height that admits the note's plaintext version, gives back exactly the
\* note, the address and the memo that were encrypted.
C1_RoundTrip ==
    (Intact /\ res.note # NotRun /\ HeightAdmitsNote) => res.note = Original

C1_Witness ==
    /\ Intact /\ HeightAdmitsNote
    /\ res.note = Original
    /\ ne.ovk = None
    /\ ne.note.rseed.tag = "BeforeZip212"

\* C2 as stated: an intact output encrypted with an ovk is recovered, at any
\* height, with the ovk and with ock = prf_ock(ovk, cv, cmu, epk): both give
\* Some, the same result, equal to the original.
C2_RecoveryAnyHeight ==
    (Intact /\ IsSome(ne.ovk) /\ ock = prf_ock(ovk, output.cv, output.cmu, output.ephemeral_key))
    => /\ res.ovk # NotRun => res.ovk = Original
       /\ res.ock # NotRun => res.ock = Original

\* C2 (amended): an intact output encrypted with an ovk, recovered at a height
\* that admits the note's plaintext version with the ovk and with
\* ock = prf_ock(ovk, cv, cmu, epk): both calls give Some, the two results
\* are equal, and both equal the original note, address and memo.
C2_Recovery ==
    (Intact /\ IsSome(ne.ovk) /\ HeightAdmitsNote
       /\ ock = prf_ock(ovk, output.cv, output.cmu, output.ephemeral_key))
    => /\ res.ovk # NotRun => res.ovk = Original
       /\ res.ock # NotRun => res.ock = Original
       /\ (res.ovk # NotRun /\ res.ock # NotRun) => res.ovk = res.ock

C2_Witness ==
    /\ Intact /\ IsSome(ne.ovk) /\ HeightAdmitsNote
    /\ res.ovk = Original /\ res.ock = Original

GateCalled == call.op = "plaintext_version_is_valid"

\* C3: plaintext_version_is_valid is the three-interval step function of the
\* height and the leading byte: before activation height H (or with no
\* activation height) only 0x01; from H to H+G-1 both 0x01 and 0x02; from H+G
\* on only 0x02.  So 0x02 is rejected at H-1 and accepted at H and H+G-1, and
\* 0x01 is accepted at H-1 and H and rejected at H+G.
C3_ThreeIntervals ==
    GateCalled =>
        LET b == call.leadbyte
            active == IsSome(params.canopy) /\ height >= params.canopy.val
            H == params.canopy.val
            G == ZIP212_GRACE_PERIOD
        IN  /\ ~active => (call.result <=> b = 1)
            /\ (active /\ height < H + G) => (call.result <=> b \in {1, 2})
            /\ (active /\ height >= H + G) => (call.result <=> b = 2)
            /\ IsSome(params.canopy) =>
                  /\ (height = H - 1 /\ b = 2) => ~call.result
                  /\ (height \in {H, H + G - 1} /\ b = 2) => call.result
                  /\ (height \in {H - 1, H} /\ b = 1) => call.result
                  /\ (height = H + G /\ b = 1) => ~call.result

C3_Witness ==
    /\ GateCalled
    /\ IsSome(params.canopy)
    /\ height = params.canopy.val + ZIP212_GRACE_PERIOD - 1
    /\ call.leadbyte = 1
    /\ call.result

\* C4: batch_kdf never aborts on an absent item: for every sequence of
\* (optional shared secret, ephemeral key) it returns a vector of the same
\* length whose entry i is None exactly when the i-th secret is None and is
\* otherwise kdf_sapling of the i-th secret and the i-th ephemeral key.
C4_BatchKdfItemwise ==
    call.op = "batch_kdf" =>
        /\ IsSome(call.result)
        /\ Len(call.result.val) = Len(call.items)
        /\ \A i \in 1..Len(call.items) :
              call.result.val[i] =
                  IF IsSome(call.items[i].secret)
                  THEN Some(kdf_sapling(call.items[i].secret.val,
                                        call.items[i].ephemeral_key))
                  ELSE None

\* what batch_kdf does give: the claimed vector when every secret is
\* present, and no vector at all as soon as one is absent
C4_BatchKdfAllPresent ==
    call.op = "batch_kdf" =>
        IF \A i \in 1..Len(call.items) : IsSome(call.items[i].secret)
        THEN /\ IsSome(call.result)
             /\ \A i \in 1..Len(call.items) :
                   call.result.val[i] =
                       Some(kdf_sapling(call.items[i].secret.val,
                                        call.items[i].ephemeral_key))
        ELSE call.result = Panic

\* C5: batch_epk returns, for every sequence of ephemeral key encodings, a
\* vector of the same length and order whose entry i pairs what epk gives for
\* the i-th encoding (None when it does not decode) with the i-th encoding
\* itself, unchanged.
C5_BatchEpkItemwise ==
    call.op = "batch_epk" =>
        /\ Len(call.result) = Len(call.ephemeral_keys)
        /\ \A i \in 1..Len(call.ephemeral_keys) :
              /\ call.result[i].epk = epk(call.ephemeral_keys[i])
              /\ call.result[i].bytes = call.ephemeral_keys[i]

C5_Witness ==
    /\ call.op = "batch_epk"
    /\ Len(call.ephemeral_keys) = 3
    /\ IsSome(call.result[1].epk)
    /\ call.result[2].epk = None
    /\ call.result[2].bytes = SignBitKey
    /\ IsSome(call.result[3].epk)

\* C6: batch trial decryption of a list of ivks and a list of outputs gives
\* a vector of |ivks| * |outputs| entries, ivk-major, whose entry for
\* (ivk_i, output_j) is what try_sapling_note_decryption gives for that pair
\* at the same height.
C6_BatchEqualsSingle ==
    call.op = "batch_try_note_decryption" =>
        LET n == Len(call.outputs)
        IN  /\ IsSome(call.result)
            /\ Len(call.result.val) = Len(call.ivks) * n
            /\ \A i \in 1..Len(call.ivks), j \in 1..n :
                  call.result.val[(i - 1) * n + j] =
                      try_sapling_note_decryption(
                          call.outputs[j].params, call.outputs[j].height,
                          call.ivks[i], call.outputs[j].out)

Failed(r) == r = NotRun \/ r = None
AllFourNone ==
    res.note = None /\ res.compact = None /\ res.ovk = None /\ res.ock = None

LeadByte == output.enc_ciphertext.pt[1]

\* C8: when the leading byte of the decrypted note plaintext is not accepted
\* by plaintext_version_is_valid at the height of the call, all four
\* decryption paths return None although keys, tags, commitment and ephemeral
\* key are those of the sender: so for 0x02 at H-1, 0x03 at H, 0x01 at H+G.
C8_InvalidVersionRejected ==
    (tamper = "leadbyte" /\ ~plaintext_version_is_valid(params, height, LeadByte))
    => /\ Failed(res.note) /\ Failed(res.compact)
       /\ Failed(res.ovk) /\ Failed(res.ock)

C8_Witness ==
    /\ tamper = "leadbyte"
    /\ height = params.canopy.val
    /\ LeadByte = 3
    /\ AllFourNone

\* C9: after a change to the authentication tag of enc_ciphertext, note
\* decryption and both output recoveries return None; after a change to the
\* authentication tag of out_ciphertext, both output recoveries return None.
C9_TagTamperRejected ==
    /\ tamper = "enc_tag" => Failed(res.note) /\ Failed(res.ovk) /\ Failed(res.ock)
    /\ tamper = "out_tag" => Failed(res.ovk) /\ Failed(res.ock)

C9_Witness ==
    /\ tamper = "enc_tag"
    /\ IsSome(ne.ovk) /\ HeightAdmitsNote
    /\ res.note = None /\ res.ovk = None /\ res.ock = None

\* C10: when the commitment the output claims differs from the commitment of
\* the decoded note, all four decryption paths return None, also where the
\* ciphertexts decrypt and decode.
C10_CmuMismatchRejected ==
    (tamper = "cmu" /\ output.cmu # Note_cmu(ne.note))
    => /\ Failed(res.note) /\ Failed(res.compact)
       /\ Failed(res.ovk) /\ Failed(res.ock)

C10_Witness ==
    /\ tamper = "cmu" /\ output.cmu # Note_cmu(ne.note)
    /\ IsSome(ne.ovk) /\ HeightAdmitsNote
    /\ AllFourNone

Returned(r) == r = NotRun \/ r = None \/ IsSome(r)

\* C7: at every height and for every output, its ephemeral key, ciphertexts,
\* commitment and value commitment of the adversary's choosing, each of the
\* four entry points ends with Some(result) or None and never panics: bytes
\* that do not decode, a tag that does not verify, a version the height does
\* not admit and a note that does not match all give the same None.
C7_NeverPanics ==
    /\ Returned(res.note) /\ Returned(res.compact)
    /\ Returned(res.ovk) /\ Returned(res.ock)

C7_Witness ==
    /\ tamper = "forged"
    /\ epk(output.ephemeral_key) = None
    /\ AllFourNone

\* C11: after the output's ephemeral key is replaced by the encoding of a
\* different curve point, all four decryption paths return None, OCK recovery
\* with the ock derived from the original ephemeral key included.
C11_EpkBinding ==
    (tamper = "epk" /\ output.ephemeral_key # epk_bytes(ne.epk)
       /\ IsSome(epk(output.ephemeral_key)))
    => /\ Failed(res.note) /\ Failed(res.compact)
       /\ Failed(res.ovk) /\ Failed(res.ock)

\* the changed key differs from the sender's by a point of small order: the
\* shared secret is the same, only the key derivation tells them apart
C11_Witness ==
    /\ tamper = "epk"
    /\ output.ephemeral_key = PointToBytes(PointAdd(ne.epk, SubgroupOrder))
    /\ ock = prf_ock(ovk, output.cv, output.cmu, epk_bytes(ne.epk))
    /\ IsSome(ne.ovk) /\ HeightAdmitsNote
    /\ AllFourNone

\* C12: an output encrypted to the address of ivk, trial-decrypted with any
\* other ivk, gives None, on the full and on the compact path.
C12_WrongIvkRejected ==
    (tamper = "ivk" /\ PointMul(ne.note.g_d, ivk) # ne.note.pk_d)
    => Failed(res.note) /\ Failed(res.compact)

\* the ephemeral key is the identity, so that every ivk agrees on the same
\* shared secret and the ciphertext authenticates: the address decides
C12_Witness ==
    /\ tamper = "ivk" /\ PointMul(ne.note.g_d, ivk) # ne.note.pk_d
    /\ HeightAdmitsNote
    /\ is_identity(ne.epk)
    /\ res.note = None /\ res.compact = None

\* the value commitment the sender put into the output
SentCv ==
    ValueCommitment_commitment(
        [asset_generator |-> asset_generator(ne.note.asset_type),
         value |-> ne.note.value, randomness |-> 1])

\* C13: try_sapling_output_recovery gives None when called with another ovk
\* than the one used at encryption, and when the output's cv is replaced by
\* another point; try_sapling_output_recovery_with_ock gives None when called
\* with an ock other than prf_ock(ovk, cv, cmu, epk).
C13_WrongSenderKeyRejected ==
    /\ (tamper = "ovk" /\ Some(ovk) # ne.ovk) => Failed(res.ovk)
    /\ (tamper = "cv" /\ output.cv # SentCv) => Failed(res.ovk)
    /\ (tamper = "ock" /\ IsSome(ne.ovk)
          /\ ock # prf_ock(ne.ovk.val, output.cv, output.cmu, output.ephemeral_key))
       => Failed(res.ock)

\* with another cv the OVK recovery fails, while the ock derived from the
\* sender's cv still opens the output
C13_Witness ==
    /\ tamper = "cv" /\ output.cv # SentCv
    /\ IsSome(ne.ovk) /\ HeightAdmitsNote
    /\ res.ovk = None
    /\ res.ock = Original

\* the diversifier bytes of the note plaintext inside enc_ciphertext
PlaintextDiversifier == Slice(output.enc_ciphertext.pt, 1, 12)

\* enc_ciphertext opens under the key of the recipient
Authenticates ==
    IsSome(decrypt_in_place_detached(
               kdf(ka_agree_dec(ivk, ne.epk), output.ephemeral_key),
               output.enc_ciphertext))

\* C14: when the diversifier bytes of the decrypted note plaintext map to no
\* curve point, all four decryption paths return None, although the
\* ciphertext authenticates under the right key.
C14_InvalidDiversifierRejected ==
    (tamper = "diversifier" /\ group_hash(PlaintextDiversifier) = None)
    => /\ Authenticates
       /\ Failed(res.note) /\ Failed(res.compact)
       /\ Failed(res.ovk) /\ Failed(res.ock)

C14_Witness ==
    /\ tamper = "diversifier" /\ group_hash(PlaintextDiversifier) = None
    /\ HeightAdmitsNote
    /\ Authenticates
    /\ AllFourNone

IncorrectDiversifier ==
    /\ tamper = "diversifier"
    /\ IsSome(group_hash(PlaintextDiversifier))
    /\ PlaintextDiversifier # ne.to.diversifier

\* what the closure of parse_note_plaintext_without_memo_ovk makes of the
\* plaintext's diversifier, given the pk_d and esk of the outgoing plaintext
RecomputedEpkMatches ==
    IsSome(get_validated_pk_d(
               ByOvk(ne.note.pk_d, ne.esk, output.ephemeral_key),
               PlaintextDiversifier))

\* C15: when the note plaintext is encrypted again under the same key with
\* its diversifier replaced by another valid one, trial decryption, full and
\* compact, returns None, and so do OVK and OCK recovery: there the ephemeral
\* key recomputed as g_d * esk is no longer the claimed one (for every
\* ephemeral key but the identity, which every g_d gives with esk = 0).
C15_IncorrectDiversifierRejected ==
    IncorrectDiversifier
    => /\ Failed(res.note) /\ Failed(res.compact)
       /\ Failed(res.ovk) /\ Failed(res.ock)
       /\ ~is_identity(ne.epk) => ~RecomputedEpkMatches

C15_Witness ==
    /\ IncorrectDiversifier
    /\ HeightAdmitsNote
    /\ Authenticates
    /\ ~is_identity(ne.epk) /\ ~RecomputedEpkMatches
    /\ AllFourNone

\* a result that is not an address or a note with the identity as pk_d
NoIdentityPkd(r) ==
    IsSome(r) => ~is_identity(r.val.to.pk_d) /\ ~is_identity(r.val.note.pk_d)

\* out_ciphertext opens under the ock of the sender
OutAuthenticates ==
    IsSome(decrypt_in_place_detached(ock, output.out_ciphertext))

\* C16: no decryption path returns an address or a note whose pk_d is the
\* identity: an output encrypted to pk_d = identity (the address of ivk = 0)
\* gets None from OVK and OCK recovery although both ciphertexts
\* authenticate, and None from trial decryption with ivk = 0.
C16_IdentityPkdRejected ==
    /\ NoIdentityPkd(res.note) /\ NoIdentityPkd(res.compact)
    /\ NoIdentityPkd(res.ovk) /\ NoIdentityPkd(res.ock)
    /\ tamper = "pk_d" =>
          /\ Authenticates /\ OutAuthenticates
          /\ Failed(res.note) /\ Failed(res.compact)
          /\ Failed(res.ovk) /\ Failed(res.ock)

C16_Witness ==
    /\ tamper = "pk_d" /\ is_identity(ne.to.pk_d) /\ ivk = 0
    /\ HeightAdmitsNote
    /\ Authenticates /\ OutAuthenticates
    /\ AllFourNone

\* sapling_note_encryption was called with ovk = None
SentWithoutOvk ==
    pc = "sent" /\ call.op = "sapling_note_encryption" /\ call.ovk = None

\* outgoing viewing keys a sender may try, the bytes of the random ock
\* among them
OvksTried == <<Ovk0, LeadThenZeros(255, 32), Repeat(9, 32)>>

NoOvkRecovers ==
    /\ \A k \in DOMAIN OvksTried :
          try_sapling_output_recovery(params, height, OvksTried[k], output) = None
    /\ Failed(res.ovk)

\* C17 as stated: an output of sapling_note_encryption with ovk = None is
\* recovered by no outgoing viewing key, while trial decryption with the
\* matching ivk succeeds, at any height.
C17_NoOvkAnyHeight ==
    SentWithoutOvk
    => /\ NoOvkRecovers
       /\ (tamper = "none" /\ res.note # NotRun) => res.note = Original

\* C17 (amended): an output of sapling_note_encryption with ovk = None is
\* recovered by no outgoing viewing key: try_sapling_output_recovery returns
\* None for every ovk; trial decryption of the same output with the matching
\* ivk, at a height that admits the note's plaintext version, gives back the
\* note, the address and the memo.
C17_NoOvkNoRecovery ==
    SentWithoutOvk
    => /\ NoOvkRecovers
       /\ (tamper = "none" /\ res.note # NotRun /\ HeightAdmitsNote)
          => res.note = Original

C17_Witness ==
    /\ SentWithoutOvk /\ tamper = "none" /\ HeightAdmitsNote
    /\ res.ovk = None
    /\ res.note = Original

\* the compact result that agrees with a full result
CompactOf(full) == Some([note |-> full.val.note, to |-> full.val.to])

\* C18: at every height, for every ivk and every output, when
\* try_sapling_note_decryption returns Some((note, address, memo)),
\* try_sapling_compact_note_decryption on CompactOutputDescription::from of
\* the same output returns Some((note, address)), the same note and address.
C18_CompactAgreesWithFull ==
    pc = "sent" =>
        LET full == try_sapling_note_decryption(params, height, ivk, output)
            compact == try_sapling_compact_note_decryption(params, height, ivk,
                           CompactOutputDescription_from(output))
        IN  /\ IsSome(full) => compact = CompactOf(full)
            /\ (IsSome(res.note) /\ res.compact # NotRun)
               => res.compact = CompactOf(res.note)

\* both calls made on an output whose cv was changed on the way
C18_Witness ==
    /\ tamper = "cv"
    /\ IsSome(res.note)
    /\ res.compact = CompactOf(res.note)
    /\ ne.note.rseed.tag = "AfterZip212"

\* the two halves of the 64 bytes handed to ViewingKey::read, decoded
ReadAk == SubgroupPoint_from_bytes(Slice(call.reader, 0, 32))
ReadNk == SubgroupPoint_from_bytes(Slice(call.reader, 32, 64))

ReadCalled == call.op = "ViewingKey::read" /\ Len(call.reader) = 64

\* C19 as stated: ViewingKey::read on 64 bytes ak || nk returns an error
\* unless ak and nk each decode to a subgroup point that is not the identity;
\* an nk half that is the identity is rejected as an ak half that is.
C19_BothHalvesNotIdentity ==
    ReadCalled =>
        (call.result.tag = "Ok" =>
            /\ IsSome(ReadAk) /\ ~is_identity(ReadAk.val)
            /\ IsSome(ReadNk) /\ ~is_identity(ReadNk.val))

\* C19 (amended): ViewingKey::read on 64 bytes ak || nk returns an error
\* exactly when ak does not decode to a subgroup point, or is the identity,
\* or nk does not decode to a subgroup point; an nk half that is the identity
\* is accepted, and the key read holds the two points.
C19_ReadChecks ==
    ReadCalled =>
        IF IsSome(ReadAk) /\ ~is_identity(ReadAk.val) /\ IsSome(ReadNk)
        THEN call.result = Ok([ak |-> ReadAk.val, nk |-> ReadNk.val])
        ELSE call.result.tag = "Err"

C19_Witness ==
    /\ ReadCalled
    /\ ReadNk = Some(Identity)
    /\ call.result.tag = "Ok"
    /\ is_identity(call.result.val.nk) /\ ~is_identity(call.result.val.ak)

\* the two parts of the 43 bytes handed to PaymentAddress::from_bytes
ParsedDiversifier == Slice(call.bytes, 0, 11)
ParsedPkd == SubgroupPoint_from_bytes(Slice(call.bytes, 11, 43))

\* C20: from_parts returns None exactly when pk_d is the identity;
\* from_bytes on 43 bytes returns Some exactly when the first 11 bytes are a
\* diversifier that maps to a point and the last 32 bytes decode to a
\* subgroup point other than the identity; and for every address a that
\* from_bytes returns, to_bytes(a) is the 43 bytes parsed, the diversifier
\* followed by the compressed pk_d, and from_bytes(to_bytes(a)) = Some(a).
C20_AddressConstructionAndParsing ==
    /\ call.op = "PaymentAddress::from_parts" =>
          /\ call.result = None <=> is_identity(call.pk_d)
          /\ IsSome(call.result) =>
                call.result.val = [pk_d |-> call.pk_d,
                                   diversifier |-> call.diversifier]
    /\ call.op = "PaymentAddress::from_bytes" =>
          /\ IsSome(call.result) <=>
                /\ IsSome(group_hash(ParsedDiversifier))
                /\ IsSome(ParsedPkd) /\ ~is_identity(ParsedPkd.val)
          /\ ~IsSome(call.result) => call.result = None
    /\ call.op = "PaymentAddress::to_bytes" =>
          /\ call.result = call.parsed
          /\ call.result = call.address.diversifier \o PointToBytes(call.address.pk_d)
          /\ Len(call.result) = 43
          /\ call.again = Some(call.address)

C20_Witness ==
    /\ call.op = "PaymentAddress::to_bytes"
    /\ call.address.diversifier = OtherDiversifier
    /\ call.result = call.parsed
    /\ call.again = Some(call.address)

\* what the codecs make of the sender's note
SentPlaintext == note_plaintext_bytes(ne.note, ne.to, ne.memo)
SentOutPlaintext == outgoing_plaintext_bytes(ne.note, ne.esk)
SentRseedBytes ==
    IF ne.note.rseed.tag = "BeforeZip212"
    THEN ScalarToRepr(ne.note.rseed.rcm)
    ELSE ne.note.rseed.rseed

\* the five fields of the note plaintext and the memo, at their offsets,
\* the rseed ending at byte n
FieldsWithin(pt, n) ==
    /\ pt[1] \in {1, 2}
    /\ Slice(pt, 1, 12) = ne.to.diversifier
    /\ Slice(pt, 12, 20) = write_u64_le(ne.note.value)
    /\ Slice(pt, 20, 52) = ne.note.asset_type.identifier
    /\ Slice(pt, 52, n) = SentRseedBytes
    /\ Slice(pt, n, Len(pt)) = ne.memo

\* C21 as stated: the compact note plaintext prefix is 52 bytes, the full
\* note plaintext 52 bytes plus the memo, the outgoing plaintext 64 bytes,
\* and version byte, diversifier, value, asset-type identifier and rseed all
\* lie inside the compact prefix.
C21_CompactPrefixIs52 ==
    pc = "sent" =>
        /\ Len(CompactOutputDescription_from(output).enc_ciphertext.pt) = 52
        /\ Len(SentPlaintext) = 52 + Len(ne.memo)
        /\ Len(SentOutPlaintext) = 64
        /\ FieldsWithin(SentPlaintext, 52)

\* C21 (amended): the compact note plaintext prefix is 84 bytes, the full
\* note plaintext 84 bytes plus the memo, the outgoing plaintext 64 bytes;
\* version byte (1), diversifier (11), value (8), asset-type identifier (32)
\* and rseed (32) fill the compact prefix, the parser reads the note from
\* the prefix alone and does not take fewer bytes than that.
C21_WireSizes ==
    pc = "sent" =>
        /\ Len(SentPlaintext) = 84 + Len(ne.memo)
        /\ Len(SentPlaintext) = NOTE_PLAINTEXT_SIZE
        /\ COMPACT_NOTE_SIZE = 84
        /\ Len(CompactOutputDescription_from(output).enc_ciphertext.pt) = 84
        /\ Len(SentOutPlaintext) = 64 /\ OUT_PLAINTEXT_SIZE = 64
        /\ FieldsWithin(SentPlaintext, 84)
        /\ sapling_parse_note_plaintext_without_memo(
               params, height, SubSeq(SentPlaintext, 1, 84), ByIvk(ivk))
             = sapling_parse_note_plaintext_without_memo(
                   params, height, SentPlaintext, ByIvk(ivk))
        /\ sapling_parse_note_plaintext_without_memo(
               params, height, SubSeq(SentPlaintext, 1, 52), ByIvk(ivk)) = Panic

C21_Witness ==
    /\ Intact /\ HeightAdmitsNote
    /\ Len(output.enc_ciphertext.pt) = 84 + MemoSize
    /\ ne.memo = Repeat(7, MemoSize)
    /\ IsSome(sapling_parse_note_plaintext_without_memo(
                  params, height, SubSeq(SentPlaintext, 1, 84), ByIvk(ivk)))
    /\ res.compact = OriginalCompact

\* C22: for every base point g_d and scalars esk and ivk, with
\* pk_d = g_d * ivk and epk = g_d * esk, ka_agree_enc(esk, pk_d) equals
\* ka_agree_dec(ivk, epk), and so the key kdf derives on the encryption side
\* equals the one it derives on the decryption side for the same ephemeral
\* key bytes.
C22_KeyAgreementSymmetry ==
    call.op = "ka_agree" =>
        /\ call.pk_d = PointMul(call.g_d, call.ivk)
        /\ call.epk = PointMul(call.g_d, call.esk)
        /\ call.enc = call.dec
        /\ call.key_enc = call.key_dec

C22_Witness ==
    /\ call.op = "ka_agree"
    /\ call.esk # call.ivk
    /\ ~is_identity(call.enc)
    /\ call.enc = call.dec /\ call.key_enc = call.key_dec

ParseCalled == call.op = "sapling_parse_note_plaintext_without_memo"

\* what each of the five checks of the claim decides on the plaintext, taken
\* by itself
FieldPasses(check) ==
    CASE check = "diversifier" -> IsSome(group_hash(Slice(call.plaintext, 1, 12)))
      [] OTHER -> sapling_parse_Passes(params, height, call.plaintext,
                                       ByIvk(call.ivk), check)

\* the check that rejects when the checks are made in the given order
FirstFailing(order) ==
    LET failing == {i \in DOMAIN order : ~FieldPasses(order[i])}
    IN  IF failing = {} THEN "none"
        ELSE order[CHOOSE i \in failing : \A j \in failing : i <= j]

RejectedBy ==
    IF call.evaluated.rejected
    THEN call.evaluated.checks[Len(call.evaluated.checks)]
    ELSE "none"

\* the checks are evaluated along the given order: the checks evaluated are
\* a prefix of it, and the last of them is the first that fails
EvaluatedAlong(order) ==
    /\ call.evaluated.checks = SubSeq(order, 1, Len(call.evaluated.checks))
    /\ RejectedBy = FirstFailing(order)

ParsedLead == call.plaintext[1]
ParsedRseedBytes == Slice(call.plaintext, 52, COMPACT_NOTE_SIZE)

\* every check of the parser other than the one on the rseed passes
OtherThanRseedPasses ==
    \A i \in DOMAIN CheckOrder :
        CheckOrder[i] # "rseed" => FieldPasses(CheckOrder[i])

\* C24: the leading byte and the kind of rseed agree in both directions.
\* note_plaintext_bytes writes 0x01 for a BeforeZip212 note and 0x02 for an
\* AfterZip212 note; a plaintext with leading byte 0x01 decodes to a
\* BeforeZip212 rseed, and to None when its 32 rseed bytes are not a canonical
\* scalar; a plaintext with leading byte 0x02 decodes to an AfterZip212 rseed
\* whatever the 32 bytes are; no decoded note has an AfterZip212 rseed with a
\* leading byte other than 0x02.
C24_RseedAgreesWithVersion ==
    ParseCalled =>
        /\ IsSome(call.result) =>
               LET note == call.result.val.note
                   encoded == note_plaintext_bytes(note, call.result.val.to, <<>>)
               IN  /\ ParsedLead = 1 =>
                          /\ IsSome(Fr_from_repr(ParsedRseedBytes))
                          /\ note.rseed =
                                 BeforeZip212(Fr_from_repr(ParsedRseedBytes).val)
                   /\ ParsedLead = 2 => note.rseed = AfterZip212(ParsedRseedBytes)
                   /\ note.rseed.tag = "AfterZip212" => ParsedLead = 2
                   /\ note.rseed.tag = "BeforeZip212" => encoded[1] = 1
                   /\ note.rseed.tag = "AfterZip212" => encoded[1] = 2
                   /\ encoded[1] = ParsedLead
        /\ ParsedLead = 1 /\ ~IsSome(Fr_from_repr(ParsedRseedBytes)) =>
               call.result = None
        /\ ParsedLead = 2 /\ OtherThanRseedPasses => IsSome(call.result)

\* 32 bytes that are no canonical scalar decode to an AfterZip212 rseed
\* under the leading byte 0x02
C24_Witness ==
    /\ ParseCalled
    /\ ParsedLead = 2
    /\ ~IsSome(Fr_from_repr(ParsedRseedBytes))
    /\ IsSome(call.result)
    /\ call.result.val.note.rseed = AfterZip212(ParsedRseedBytes)

SentOverMax == pc = "sent" /\ tamper = "value"

ValueField(pt) == Slice(pt, 12, 20)

ValueWithinBound(r) == IsSome(r) => U64Leq(r.val.note.value, MAX_MONEY)

\* C25: a note plaintext whose 8-byte little-endian value field is above
\* MAX_MONEY is rejected with None by all four decryption paths, so every
\* note a path returns has a value of at most MAX_MONEY; note_plaintext_bytes
\* writes the value of the note without checking it, so an output encrypted
\* from a note with a value above MAX_MONEY decrypts on no path at any
\* height.
C25_ValueBound ==
    pc = "sent" =>
        /\ ValueWithinBound(res.note) /\ ValueWithinBound(res.compact)
        /\ ValueWithinBound(res.ovk) /\ ValueWithinBound(res.ock)
        /\ ~U64Leq(ValueField(output.enc_ciphertext.pt), MAX_MONEY) =>
               /\ Failed(res.note) /\ Failed(res.compact)
               /\ Failed(res.ovk) /\ Failed(res.ock)
        /\ ValueField(SentPlaintext) = ne.note.value
        /\ SentOverMax =>
               /\ ~U64Leq(ne.note.value, MAX_MONEY)
               /\ ~U64Leq(ValueField(output.enc_ciphertext.pt), MAX_MONEY)

\* an output of a note above MAX_MONEY, scanned with the right keys at a
\* height that admits its version, on all four paths
C25_Witness ==
    /\ SentOverMax
    /\ HeightAdmitsNote
    /\ AllFourNone

\* the leading bytes plaintext_version_is_valid accepts at a height
AcceptedAt(h) == {b \in LeadBytes : plaintext_version_is_valid(params, h, b)}

\* C26: at every height the leading bytes plaintext_version_is_valid accepts
\* are a non-empty subset of {0x01, 0x02}; once 0x01 is rejected at a height
\* it is rejected at every greater height, and once 0x02 is accepted at a
\* height it is accepted at every greater height.
C26_GateMonotone ==
    GateCalled =>
        /\ call.result <=> call.leadbyte \in AcceptedAt(height)
        /\ call.result => call.leadbyte \in {1, 2}
        /\ \A h \in 0..MaxHeight + 1 :
               /\ AcceptedAt(h) # {}
               /\ AcceptedAt(h) \subseteq {1, 2}
        /\ \A later \in height..MaxHeight + 1 :
               /\ (call.leadbyte = 1 /\ ~call.result) => 1 \notin AcceptedAt(later)
               /\ (call.leadbyte = 2 /\ call.result) => 2 \in AcceptedAt(later)

\* 0x01 is rejected at a height although it was accepted at a lower one
C26_Witness ==
    /\ GateCalled
    /\ call.leadbyte = 1 /\ ~call.result
    /\ height < MaxHeight
    /\ \E earlier \in 0..height : 1 \in AcceptedAt(earlier)
    /\ 2 \in AcceptedAt(height)

\* the keys of the scan are those of the sender: the output is as sent, it
\* was encrypted with the ovk, and the ock is the one derived from it
AllKeysMatch ==
    /\ Intact
    /\ IsSome(ne.ovk)
    /\ ock = prf_ock(ovk, output.cv, output.cmu, output.ephemeral_key)

DecryptsAt(r, original) == r # NotRun => r = original
RejectedAt(r) == r # NotRun => r = None

\* C27: the round trip depends on the height passed to decryption.  With
\* all keys matching, an output of a BeforeZip212 note decrypts on all four
\* paths iff height < H + G, an output of an AfterZip212 note iff height >= H;
\* outside those ranges every path returns None for the untampered output.
C27_RoundTripByHeight ==
    AllKeysMatch =>
        LET H == params.canopy.val
            G == ZIP212_GRACE_PERIOD
            inRange == IF ne.note.rseed.tag = "BeforeZip212"
                       THEN height < H + G
                       ELSE height >= H
        IN  IF inRange
            THEN /\ DecryptsAt(res.note, Original)
                 /\ DecryptsAt(res.compact, OriginalCompact)
                 /\ DecryptsAt(res.ovk, Original)
                 /\ DecryptsAt(res.ock, Original)
            ELSE /\ RejectedAt(res.note) /\ RejectedAt(res.compact)
                 /\ RejectedAt(res.ovk) /\ RejectedAt(res.ock)

\* an untampered output of an AfterZip212 note scanned below the activation
\* height: None on all four paths
C27_Witness ==
    /\ AllKeysMatch
    /\ ne.note.rseed.tag = "AfterZip212"
    /\ height < params.canopy.val
    /\ AllFourNone

\* the output as the sender made it, before anything was done to its
\* enc_ciphertext
SentOutput == [output EXCEPT !.enc_ciphertext = encrypt_note_plaintext(ne)]

BeyondCompactChanged == pc = "sent" /\ tamper \in {"enc_tag", "enc_memo"}

CompactResult(out) ==
    try_sapling_compact_note_decryption(params, height, ivk,
        CompactOutputDescription_from(out))

\* C28: compact decryption ignores the memo and the authentication tag.
\* After a change to bytes of enc_ciphertext beyond the compact prefix (the
\* memo ciphertext or the 16-byte tag), try_sapling_compact_note_decryption on
\* the compact output derived from it returns what it returns for the output
\* as sent; full trial decryption of the changed output returns None, and
\* where the output as sent decrypts, the compact path still returns
\* Some((note, address)).
C28_CompactIgnoresTagAndMemo ==
    BeyondCompactChanged =>
        /\ output.enc_ciphertext # SentOutput.enc_ciphertext
        /\ res.compact # NotRun => res.compact = CompactResult(SentOutput)
        /\ CompactResult(output) = CompactResult(SentOutput)
        /\ Failed(res.note)
        /\ HeightAdmitsNote =>
               /\ CompactResult(output) = OriginalCompact
               /\ res.compact # NotRun => res.compact = OriginalCompact

\* decryption_with_invalid_tag of the tests, with the compact path called on
\* the same output
C28_Witness ==
    /\ pc = "sent" /\ tamper = "enc_tag"
    /\ res.note = None
    /\ res.compact = OriginalCompact

\* the same after a change to the memo ciphertext
C28_MemoWitness ==
    /\ pc = "sent" /\ tamper = "enc_memo"
    /\ res.note = None
    /\ res.compact = OriginalCompact

CvReplaced == pc = "sent" /\ tamper = "cv"

OckRecovery(out) == try_sapling_output_recovery_with_ock(params, height, ock, out)

\* points put in the place of cv: the identity, points of small order, of
\* the subgroup and of neither, and the sender's cv itself
CvsTried ==
    {Identity, 1, SubgroupOrder, Cofactor, GroupOrder - 1, SentCv,
     PointAdd(SentCv, 1), PointAdd(SentCv, Cofactor)}

\* C29: recovery with an ock does not depend on the value commitment.  For
\* outputs that differ only in cv, try_sapling_output_recovery_with_ock with
\* the same ock returns the same result; so after cv is replaced by another
\* point, recovery with the ovk fails while recovery with the ock derived
\* from the sender's cv returns what it returns for the output as sent, the
\* original where that one is recovered.
C29_OckIndependentOfCv ==
    CvReplaced =>
        /\ output.cv # SentCv
        /\ res.ock # NotRun =>
               res.ock = OckRecovery([output EXCEPT !.cv = SentCv])
        /\ \A cv \in CvsTried :
               OckRecovery([output EXCEPT !.cv = cv]) = OckRecovery(output)
        /\ Failed(res.ovk)
        /\ (IsSome(ne.ovk) /\ HeightAdmitsNote) =>
               /\ OckRecovery(output) = Original
               /\ res.ock # NotRun => res.ock = Original

\* recovery_with_invalid_cv of the tests, with the recovery by ock called on
\* the same output: cv moved by a point outside the subgroup
C29_Witness ==
    /\ CvReplaced
    /\ ~InSubgroup(PointAdd(output.cv, GroupOrder - SentCv))
    /\ ock = prf_ock(ovk, SentCv, output.cmu, output.ephemeral_key)
    /\ res.ovk = None
    /\ res.ock = Original

DeserializeCalled == call.op = "PaymentAddress::deserialize"

\* C30: Borsh deserialization of a PaymentAddress leaves the buffer as it was
\* when it fails.  When deserialize returns Ok the buffer has advanced by
\* exactly 43 bytes and the address is the one from_bytes gives for them;
\* when it returns an error (fewer than 43 bytes: UnexpectedEof; a
\* diversifier without g_d, or a pk_d that is no subgroup point or is the
\* identity: InvalidData) the buffer is exactly what it was before the call.
C30_DeserializeCursor ==
    DeserializeCalled =>
        /\ call.result.tag = "Err" => call.rest = call.buf
        /\ call.result.tag \in {"Ok", "Err"}
        /\ call.result.tag = "Ok" =>
               /\ Len(call.buf) >= 43
               /\ Len(call.rest) = Len(call.buf) - 43
               /\ call.buf = SubSeq(call.buf, 1, 43) \o call.rest
               /\ Some(call.result.val) =
                      PaymentAddress_from_bytes(SubSeq(call.buf, 1, 43))
        /\ Len(call.buf) < 43 =>
               call.result.tag = "Err" /\ call.result.kind = "UnexpectedEof"
        /\ Len(call.buf) >= 43 =>
               LET diversifier == SubSeq(call.buf, 1, 11)
                   pk_d == SubgroupPoint_from_bytes(SubSeq(call.buf, 12, 43))
                   invalid == \/ ~IsSome(group_hash(diversifier))
                              \/ ~IsSome(pk_d)
                              \/ pk_d.val = Identity
               IN  /\ invalid <=> call.result.tag = "Err"
                   /\ invalid => call.result.kind = "InvalidData"

\* an address with the identity as pk_d, followed by more bytes: InvalidData,
\* and the buffer still holds all of them
C30_Witness ==
    /\ DeserializeCalled
    /\ Len(call.buf) > 43
    /\ IsSome(group_hash(SubSeq(call.buf, 1, 11)))
    /\ SubSeq(call.buf, 12, 43) = PointToBytes(Identity)
    /\ call.result.tag = "Err"
    /\ call.rest = call.buf

===========================================================================
